---------------------------- MODULE Spec2Model ----------------------------
(***************************************************************************)
(* CineLog: the deck builder (cursor pagination over the TMDB discover     *)
(* feed), the cursor codec, and the Store operations behind the swipe,     *)
(* list and friend endpoints.                                              *)
(*                                                                         *)
(* Text is modelled as sequences of character codes (ASCII / code points), *)
(* bytes as sequences of 0..255.  Python values read out of a decoded      *)
(* cursor are pairs <<kind, n>> with kind in "int", "float", "none",       *)
(* "str", "bool", "list", "dict", "missing" (n is the value of an int or   *)
(* bool and 0 otherwise).                                                  *)
(***************************************************************************)
EXTENDS Integers, Sequences, FiniteSets, TLC

\* ------------------------------------------------------------ bounds ----
\* movie ids of the catalogue are 1..MaxMovieId
MaxMovieId == 2
\* the feed has MaxPages explicitly listed pages; every later page is the tail page
MaxPages == 1
\* entries per catalogue page
MaxPageLen == 2
\* largest limit a deck request carries
MaxLimit == 3
\* page and index arguments of the cursor codec run over 0..MaxCursorArg
MaxCursorArg == 11
\* the logical clock stops write operations at MaxClock
MaxClock == 2

\* --------------------------------------------------- program constants ----
\* business_logic.py:91  while ... and current_page <= 500
PageCeiling == 500

\* ------------------------------------------------------------- text ------
PyInt(n) == <<"int", n>>
PyNone == <<"none", 0>>
PyMissing == <<"missing", 0>>

IsDigit(c) == c >= 48 /\ c <= 57
\* JSON whitespace: space, \t, \n, \r
IsWs(c) == c \in {32, 9, 10, 13}

RECURSIVE NatToStr(_)
NatToStr(n) ==
  IF n < 10 THEN <<48 + n>> ELSE NatToStr(n \div 10) \o <<48 + (n % 10)>>

\* str(int) as json.dumps writes an int
IntToStr(n) == IF n < 0 THEN <<45>> \o NatToStr(0 - n) ELSE NatToStr(n)

\* json.dumps({"page": page, "index": index}): default separators ", " and ": "
json_dumps_cursor(page, index) ==
     <<123, 34, 112, 97, 103, 101, 34, 58, 32>>            \* {"page":_
  \o IntToStr(page)
  \o <<44, 32, 34, 105, 110, 100, 101, 120, 34, 58, 32>>   \* ,_"index":_
  \o IntToStr(index)
  \o <<125>>                                               \* }

\* the URL-safe base64 alphabet: A-Z a-z 0-9 - _
B64Char(v) ==
  IF v < 26 THEN 65 + v
  ELSE IF v < 52 THEN 97 + (v - 26)
  ELSE IF v < 62 THEN 48 + (v - 52)
  ELSE IF v = 62 THEN 45 ELSE 95

RECURSIVE b64encode(_)
\* base64.urlsafe_b64encode: 3 bytes -> 4 characters, '=' padding
b64encode(bytes) ==
  IF Len(bytes) = 0 THEN <<>>
  ELSE IF Len(bytes) = 1 THEN
    <<B64Char(bytes[1] \div 4), B64Char((bytes[1] % 4) * 16), 61, 61>>
  ELSE IF Len(bytes) = 2 THEN
    <<B64Char(bytes[1] \div 4),
      B64Char((bytes[1] % 4) * 16 + bytes[2] \div 16),
      B64Char((bytes[2] % 16) * 4), 61>>
  ELSE
    <<B64Char(bytes[1] \div 4),
      B64Char((bytes[1] % 4) * 16 + bytes[2] \div 16),
      B64Char((bytes[2] % 16) * 4 + bytes[3] \div 64),
      B64Char(bytes[3] % 64)>>
    \o b64encode(SubSeq(bytes, 4, Len(bytes)))

\* the UTF-8 bytes of one code point (json.dumps writes no surrogates)
utf8_bytes(c) ==
  IF c < 128 THEN <<c>>
  ELSE IF c < 2048 THEN <<192 + (c \div 64), 128 + (c % 64)>>
  ELSE IF c < 65536
  THEN <<224 + (c \div 4096), 128 + ((c \div 64) % 64), 128 + (c % 64)>>
  ELSE <<240 + (c \div 262144), 128 + ((c \div 4096) % 64),
         128 + ((c \div 64) % 64), 128 + (c % 64)>>

RECURSIVE utf8_encode_range(_, _, _)
utf8_encode_range(text, lo, hi) ==
  IF lo > hi THEN <<>>
  ELSE IF lo = hi THEN utf8_bytes(text[lo])
  ELSE LET mid == (lo + hi) \div 2 IN
       utf8_encode_range(text, lo, mid) \o utf8_encode_range(text, mid + 1, hi)

\* str.encode("utf-8")
utf8_encode(text) == utf8_encode_range(text, 1, Len(text))

encode_cursor(page, index) ==
  b64encode(utf8_encode(json_dumps_cursor(page, index)))

\* value of a character in binascii's table after the urlsafe translation
\* of '-' to '+' and '_' to '/'; 64 for a character outside the alphabet
B64Val(c) ==
  IF c >= 65 /\ c <= 90 THEN c - 65
  ELSE IF c >= 97 /\ c <= 122 THEN c - 97 + 26
  ELSE IF c >= 48 /\ c <= 57 THEN c - 48 + 52
  ELSE IF c = 43 \/ c = 45 THEN 62
  ELSE IF c = 47 \/ c = 95 THEN 63
  ELSE 64

\* one character of binascii.a2b_base64 (non-strict): a character outside
\* the alphabet is skipped, a complete pad sequence ends the input.
\* st = [quad_pos, leftchar, pads, out, done]
a2b_step(st, c) ==
  IF st.done THEN st
  ELSE IF c = 61 THEN
    IF st.quad_pos >= 2 /\ st.quad_pos + st.pads + 1 >= 4
    THEN [st EXCEPT !.done = TRUE]
    ELSE [st EXCEPT !.pads = IF st.quad_pos >= 2 THEN @ + 1 ELSE @]
  ELSE IF B64Val(c) = 64 THEN st
  ELSE
    LET v == B64Val(c) IN
    IF st.quad_pos = 0
    THEN [st EXCEPT !.quad_pos = 1, !.leftchar = v, !.pads = 0]
    ELSE IF st.quad_pos = 1
    THEN [st EXCEPT !.quad_pos = 2, !.leftchar = v % 16, !.pads = 0,
                    !.out = Append(@, st.leftchar * 4 + v \div 16)]
    ELSE IF st.quad_pos = 2
    THEN [st EXCEPT !.quad_pos = 3, !.leftchar = v % 4, !.pads = 0,
                    !.out = Append(@, st.leftchar * 16 + v \div 4)]
    ELSE [st EXCEPT !.quad_pos = 0, !.leftchar = 0, !.pads = 0,
                    !.out = Append(@, st.leftchar * 64 + v)]

RECURSIVE a2b_loop(_, _, _, _)
\* the for loop of a2b_base64 over s[lo..hi], left to right (the range is
\* halved so that the evaluation stays shallow)
a2b_loop(s, st, lo, hi) ==
  IF lo > hi THEN st
  ELSE IF lo = hi THEN a2b_step(st, s[lo])
  ELSE
    LET mid == (lo + hi) \div 2
        left == a2b_loop(s, st, lo, mid)
    IN IF left.done THEN left ELSE a2b_loop(s, left, mid + 1, hi)

\* binascii.a2b_base64: a dangling quad at the end of the input raises.
\* Result: [ok |-> BOOLEAN, bytes |-> the decoded bytes]
a2b_base64(s) ==
  LET result(st) == [ok |-> st.done \/ st.quad_pos = 0, bytes |-> st.out]
  IN result(a2b_loop(s, [quad_pos |-> 0, leftchar |-> 0, pads |-> 0,
                         out |-> <<>>, done |-> FALSE], 1, Len(s)))

\* base64.urlsafe_b64decode of a str: a non-ASCII character raises
urlsafe_b64decode(s) ==
  IF \E i \in 1..Len(s) : s[i] > 127 THEN [ok |-> FALSE, bytes |-> <<>>]
  ELSE a2b_base64(s)

\* one byte of a strict UTF-8 decoder.
\* st = [ok, need |-> continuation bytes still expected, lo, hi |-> range
\*       the next continuation byte must lie in, cp, out]
utf8_step(st, b) ==
  IF ~st.ok THEN st
  ELSE IF st.need > 0 THEN
    IF b >= st.lo /\ b <= st.hi
    THEN IF st.need = 1
         THEN [st EXCEPT !.need = 0, !.cp = 0,
                         !.out = Append(@, st.cp * 64 + (b - 128))]
         ELSE [st EXCEPT !.need = @ - 1, !.lo = 128, !.hi = 191,
                         !.cp = @ * 64 + (b - 128)]
    ELSE [st EXCEPT !.ok = FALSE]
  ELSE IF b < 128 THEN [st EXCEPT !.out = Append(@, b)]
  ELSE IF b >= 194 /\ b <= 223
  THEN [st EXCEPT !.need = 1, !.lo = 128, !.hi = 191, !.cp = b - 192]
  ELSE IF b >= 224 /\ b <= 239
  THEN [st EXCEPT !.need = 2, !.cp = b - 224,
                  !.lo = IF b = 224 THEN 160 ELSE 128,
                  !.hi = IF b = 237 THEN 159 ELSE 191]
  ELSE IF b >= 240 /\ b <= 244
  THEN [st EXCEPT !.need = 3, !.cp = b - 240,
                  !.lo = IF b = 240 THEN 144 ELSE 128,
                  !.hi = IF b = 244 THEN 143 ELSE 191]
  ELSE [st EXCEPT !.ok = FALSE]

RECURSIVE utf8_loop(_, _, _, _)
utf8_loop(b, st, lo, hi) ==
  IF lo > hi THEN st
  ELSE IF lo = hi THEN utf8_step(st, b[lo])
  ELSE
    LET mid == (lo + hi) \div 2
        left == utf8_loop(b, st, lo, mid)
    IN IF ~left.ok THEN left ELSE utf8_loop(b, left, mid + 1, hi)

\* bytes.decode("utf-8"), strict.  Result: [ok, text |-> code points]
utf8_decode(b) ==
  LET result(st) == [ok |-> st.ok /\ st.need = 0, text |-> st.out]
  IN result(utf8_loop(b, [ok |-> TRUE, need |-> 0, lo |-> 128, hi |-> 191,
                          cp |-> 0, out |-> <<>>], 1, Len(b)))

\* ------------------------------------------------------- json.loads -----
\* json.loads on texts without a backslash (string escapes are outside the
\* modelled alphabet).  A parse result is
\*   [ok, pos |-> first position after the value, val |-> the Python value,
\*    page, index |-> the values a dict holds under "page" and "index"]
ParseFail ==
  [ok |-> FALSE, pos |-> 0, val |-> PyNone, page |-> PyMissing, index |-> PyMissing]

Parsed(pos, val) ==
  [ok |-> TRUE, pos |-> pos, val |-> val, page |-> PyMissing, index |-> PyMissing]

RECURSIVE SkipWs(_, _)
SkipWs(t, i) == IF i <= Len(t) /\ IsWs(t[i]) THEN SkipWs(t, i + 1) ELSE i

RECURSIVE ScanString(_, _)
\* from the position after an opening quote: the position of the closing
\* quote, or 0 (unterminated, or a control character in strict mode)
ScanString(t, i) ==
  IF i > Len(t) THEN 0
  ELSE IF t[i] = 34 THEN i
  ELSE IF t[i] < 32 \/ t[i] = 92 THEN 0
  ELSE ScanString(t, i + 1)

RECURSIVE ScanDigits(_, _)
ScanDigits(t, i) == IF i <= Len(t) /\ IsDigit(t[i]) THEN ScanDigits(t, i + 1) ELSE i

RECURSIVE DigitsValue(_, _, _, _)
DigitsValue(t, i, j, acc) ==
  IF i >= j THEN acc ELSE DigitsValue(t, i + 1, j, acc * 10 + (t[i] - 48))

HasAt(t, i, lit) ==
  i + Len(lit) - 1 <= Len(t) /\ SubSeq(t, i, i + Len(lit) - 1) = lit

\* json.scanner NUMBER_RE: (-?(?:0|[1-9]\d*))(\.\d+)?([eE][-+]?\d+)?
ScanNumber(t, i) ==
  LET \* the match: an int when neither fraction nor exponent matched
      number(s, intEnd, expEnd) ==
        LET magnitude == DigitsValue(t, s, intEnd, 0) IN
        IF expEnd = intEnd
        THEN Parsed(intEnd, PyInt(IF s > i THEN 0 - magnitude ELSE magnitude))
        ELSE Parsed(expEnd, <<"float", 0>>)
      \* ([eE][-+]?\d+)? from fracEnd, its digits from sgn
      exponent(s, intEnd, fracEnd, sgn) ==
        number(s, intEnd,
               IF fracEnd <= Len(t) /\ t[fracEnd] \in {101, 69}
                  /\ sgn <= Len(t) /\ IsDigit(t[sgn])
               THEN ScanDigits(t, sgn) ELSE fracEnd)
      \* (\.\d+)? from intEnd
      fraction(s, intEnd, fracEnd) ==
        exponent(s, intEnd, fracEnd,
                 IF fracEnd + 1 <= Len(t) /\ t[fracEnd] \in {101, 69}
                    /\ t[fracEnd + 1] \in {43, 45}
                 THEN fracEnd + 2 ELSE fracEnd + 1)
      \* (0|[1-9]\d*) from s
      integer(s, intEnd) ==
        IF intEnd = 0 THEN ParseFail
        ELSE fraction(s, intEnd,
                      IF intEnd + 1 <= Len(t) /\ t[intEnd] = 46
                         /\ IsDigit(t[intEnd + 1])
                      THEN ScanDigits(t, intEnd + 1) ELSE intEnd)
      \* -? from i
      sign(s) ==
        integer(s, IF s <= Len(t) /\ t[s] = 48 THEN s + 1
                   ELSE IF s <= Len(t) /\ IsDigit(t[s]) THEN ScanDigits(t, s)
                   ELSE 0)
  IN sign(IF i <= Len(t) /\ t[i] = 45 THEN i + 1 ELSE i)

RECURSIVE ParseValue(_, _)
RECURSIVE ParseMembers(_, _, _, _)
RECURSIVE ParseElements(_, _)

\* json.decoder.JSONObject after the first key's opening quote was found at j
ParseMembers(t, j, page, index) ==
  IF j > Len(t) \/ t[j] # 34 THEN ParseFail
  ELSE
    LET q == ScanString(t, j + 1) IN
    IF q = 0 THEN ParseFail
    ELSE
      LET key == SubSeq(t, j + 1, q - 1)
          c == SkipWs(t, q + 1)
      IN IF c > Len(t) \/ t[c] # 58 THEN ParseFail
         ELSE
           LET v == ParseValue(t, SkipWs(t, c + 1)) IN
           IF ~v.ok THEN ParseFail
           ELSE
             LET page2 == IF key = <<112, 97, 103, 101>> THEN v.val ELSE page
                 index2 == IF key = <<105, 110, 100, 101, 120>> THEN v.val ELSE index
                 d == SkipWs(t, v.pos)
             IN IF d > Len(t) THEN ParseFail
                ELSE IF t[d] = 125
                THEN [ok |-> TRUE, pos |-> d + 1, val |-> <<"dict", 0>>,
                      page |-> page2, index |-> index2]
                ELSE IF t[d] = 44
                THEN ParseMembers(t, SkipWs(t, d + 1), page2, index2)
                ELSE ParseFail

\* json.decoder.JSONArray from the first element
ParseElements(t, j) ==
  LET v == ParseValue(t, j) IN
  IF ~v.ok THEN ParseFail
  ELSE
    LET d == SkipWs(t, v.pos) IN
    IF d > Len(t) THEN ParseFail
    ELSE IF t[d] = 93 THEN Parsed(d + 1, <<"list", 0>>)
    ELSE IF t[d] = 44 THEN ParseElements(t, SkipWs(t, d + 1))
    ELSE ParseFail

\* json.scanner.py_make_scanner._scan_once
ParseValue(t, i) ==
  IF i > Len(t) THEN ParseFail
  ELSE IF t[i] = 34 THEN
    LET q == ScanString(t, i + 1) IN
    IF q = 0 THEN ParseFail ELSE Parsed(q + 1, <<"str", 0>>)
  ELSE IF t[i] = 123 THEN
    LET j == SkipWs(t, i + 1) IN
    IF j > Len(t) THEN ParseFail
    ELSE IF t[j] = 125 THEN Parsed(j + 1, <<"dict", 0>>)
    ELSE ParseMembers(t, j, PyMissing, PyMissing)
  ELSE IF t[i] = 91 THEN
    LET j == SkipWs(t, i + 1) IN
    IF j > Len(t) THEN ParseFail
    ELSE IF t[j] = 93 THEN Parsed(j + 1, <<"list", 0>>)
    ELSE ParseElements(t, j)
  ELSE IF HasAt(t, i, <<110, 117, 108, 108>>) THEN Parsed(i + 4, PyNone)
  ELSE IF HasAt(t, i, <<116, 114, 117, 101>>) THEN Parsed(i + 4, <<"bool", 1>>)
  ELSE IF HasAt(t, i, <<102, 97, 108, 115, 101>>) THEN Parsed(i + 5, <<"bool", 0>>)
  ELSE
    LET number_or_constant(num) ==
          IF num.ok THEN num
          ELSE IF HasAt(t, i, <<78, 97, 78>>) THEN Parsed(i + 3, <<"float", 0>>)
          ELSE IF HasAt(t, i, <<73, 110, 102, 105, 110, 105, 116, 121>>)
          THEN Parsed(i + 8, <<"float", 0>>)
          ELSE IF HasAt(t, i, <<45, 73, 110, 102, 105, 110, 105, 116, 121>>)
          THEN Parsed(i + 9, <<"float", 0>>)
          ELSE ParseFail
    IN number_or_constant(ScanNumber(t, i))

\* json.loads: one value between optional whitespace, nothing after it
json_loads(t) ==
  LET whole(v) == IF v.ok /\ SkipWs(t, v.pos) > Len(t) THEN v ELSE ParseFail
  IN whole(ParseValue(t, SkipWs(t, 1)))

\* ------------------------------------------------------ utils.py --------
StartPosition == <<PyInt(1), PyInt(0)>>

decode_cursor_or_default(cursor) ==
  LET \* data.get("page", 1), data.get("index", 0)
      get(data) ==
        IF ~data.ok THEN StartPosition
        ELSE IF data.val[1] # "dict" THEN StartPosition
        ELSE <<IF data.page = PyMissing \/ data.page = PyInt(0) THEN PyInt(1) ELSE data.page,
               IF data.index = PyMissing THEN PyInt(0) ELSE data.index>>
      loads(txt) ==
        IF ~txt.ok THEN StartPosition ELSE get(json_loads(txt.text))
      decode(raw) ==
        IF ~raw.ok THEN StartPosition ELSE loads(utf8_decode(raw.bytes))
  IN decode(urlsafe_b64decode(cursor))

\* decode_cursor: <<page, index>> as Python values; every exception of the
\* try block (binascii.Error, ValueError, UnicodeDecodeError,
\* JSONDecodeError, AttributeError of a non-dict) gives (1, 0)
decode_cursor(cursor) ==
  LET \* data.get("page", 1), data.get("index", 0)
      get(data) ==
        IF ~data.ok THEN StartPosition
        ELSE IF data.val[1] # "dict" THEN StartPosition
        ELSE <<IF data.page = PyMissing THEN PyInt(1) ELSE data.page,
               IF data.index = PyMissing THEN PyInt(0) ELSE data.index>>
      loads(txt) ==
        IF ~txt.ok THEN StartPosition ELSE get(json_loads(txt.text))
      decode(raw) ==
        IF ~raw.ok THEN StartPosition ELSE loads(utf8_decode(raw.bytes))
  IN decode(urlsafe_b64decode(cursor))

\* ----------------------------------------------------------- state ------
\* Optional values (Python None, SQL NULL) are sets: {} is absent, {v} is v.
VARIABLES
  users,             \* rows of users: [id, email]
  movies,            \* rows of movies: [id, title, release_date, poster_path,
                     \*                  backdrop_path, overview]
  genres,            \* rows of genres: [id, name]
  movie_genres,      \* rows of movie_genres: [movie_id, genre_id]
  swipes,            \* rows of swipes: [user_id, movie_id, decision, swiped_at]
  master_list,       \* rows: [user_id, movie_id, rating, notes, added_at]
  watch_later_list,  \* rows: [user_id, movie_id, priority, added_at]
  friendships,       \* rows: [user_id, friend_id, status, created_at]
  now,               \* the clock behind datetime.utcnow, in ticks
  feed,              \* the Catalog Source's discover feed: [pages, tail, down]
  req,               \* the last request
  resp,              \* the response to it
  hist               \* the request before it, for a deck call that resumes

store == <<users, movies, genres, movie_genres, swipes, master_list,
           watch_later_list, friendships, now>>
vars == <<users, movies, genres, movie_genres, swipes, master_list,
          watch_later_list, friendships, now, feed, req, resp, hist>>

MovieIds == 1..MaxMovieId
\* "demo" is the default user_id of every endpoint (main.py, schemas.py)
Emails == {"demo", "ann"}
\* UUIDs; one more than there are emails, so that one never names a user
Uuids == 1..(Cardinality(Emails) + 1)

None == {}
Some(v) == {v}
\* the value of a present optional
The(o) == CHOOSE v \in o : TRUE

\* ------------------------------------------------- Catalog Source ------
\* What TMDB holds for a movie id: some entries lack "title", some lack
\* every display attribute.
TmdbEntry(m) ==
  [id |-> m,
   title |-> IF m % 3 = 1 THEN Some("title") ELSE None,
   name |-> IF m % 3 = 2 THEN Some("name") ELSE None,
   poster_path |-> IF m % 2 = 1 THEN Some("/poster.jpg") ELSE None,
   backdrop_path |-> IF m % 2 = 1 THEN Some("/backdrop.jpg") ELSE None,
   overview |-> IF m % 3 # 0 THEN Some("overview") ELSE None,
   release_date |-> IF m % 3 # 0 THEN Some("2020-01-01") ELSE None]

\* genre ids of GET /movie/{id}
TmdbGenreIds(m) == IF m % 2 = 1 THEN {1} ELSE {1, 2}

EntriesOf(ids) == [k \in 1..Len(ids) |-> TmdbEntry(ids[k])]

discover_movies_down_is_empty(f, page, upstream) ==
  IF page < 1 \/ page \in f.down
  THEN [err |-> FALSE, results |-> <<>>]
  ELSE [err |-> FALSE,
        results |-> EntriesOf(IF page <= Len(f.pages) THEN f.pages[page]
                              ELSE f.tail)]

\* discover_movies(page): raise_for_status raises on an error status.
\* Pages are numbered from 1; what the source answers to another page
\* number is its choice (upstream): an error status or an empty page.
\* f.down are the pages of the feed the source fails to deliver.
discover_movies(f, page, upstream) ==
  IF page < 1
  THEN [err |-> upstream = "error", results |-> <<>>]
  ELSE IF page \in f.down THEN [err |-> TRUE, results |-> <<>>]
  ELSE [err |-> FALSE,
        results |-> EntriesOf(IF page <= Len(f.pages) THEN f.pages[page]
                              ELSE f.tail)]

\* ------------------------------------------------------ get_deck -------
\* the card get_deck builds of a feed entry
Card(m) ==
  [id |-> m.id,
   title |-> IF m.title # None THEN The(m.title)
             ELSE IF m.name # None THEN The(m.name) ELSE "Untitled",
   poster_path |-> m.poster_path,
   backdrop_path |-> m.backdrop_path,
   overview |-> m.overview,
   release_date |-> m.release_date]

NoCursor == [some |-> FALSE, s |-> <<>>]
SomeCursor(s) == [some |-> TRUE, s |-> s]

\* results[current_index:] for the Python value current_index
\* [ok |-> FALSE] is the TypeError of a slice index that is no integer
PySliceFrom(results, index) ==
  IF index[1] = "none" THEN [ok |-> TRUE, seq |-> results]
  ELSE IF index[1] \in {"int", "bool"} THEN
    LET n == index[2]
        from == IF n >= 0 THEN n
                ELSE IF Len(results) + n > 0 THEN Len(results) + n ELSE 0
    IN [ok |-> TRUE, seq |-> SubSeq(results, from + 1, Len(results))]
  ELSE [ok |-> FALSE, seq |-> <<>>]

RECURSIVE scan_results_without_break(_, _, _, _, _, _)
scan_results_without_break(c, page, index, results, k, deck) ==
  IF k > Len(results)
  THEN [deck |-> deck, err |-> "", cursor |-> NoCursor, has_more |-> FALSE]
  ELSE IF results[k].id \in c.swiped_ids
  THEN scan_results_without_break(c, page, index, results, k + 1, deck)
  ELSE scan_results_without_break(c, page, index, results, k + 1,
                                  Append(deck, Card(results[k])))

RECURSIVE scan_results(_, _, _, _, _, _)
\* for idx, m in enumerate(results): ... (k = idx + 1); index is
\* current_index as a Python value
scan_results(c, page, index, results, k, deck) ==
  IF k > Len(results)
  THEN [deck |-> deck, err |-> "", cursor |-> NoCursor, has_more |-> FALSE]
  ELSE IF results[k].id \in c.swiped_ids
  THEN scan_results(c, page, index, results, k + 1, deck)
  ELSE
    LET deck2 == Append(deck, Card(results[k])) IN
    IF Len(deck2) >= c.limit
    THEN IF index[1] \in {"int", "bool"}
         THEN [deck |-> deck2, err |-> "",
               cursor |-> SomeCursor(encode_cursor(page, index[2] + (k - 1) + 1)),
               has_more |-> TRUE]
         ELSE [deck |-> deck2, err |-> "TypeError", cursor |-> NoCursor,
               has_more |-> FALSE]
    ELSE scan_results(c, page, index, results, k + 1, deck2)

\* one pass of the while body at ls.current_page.
\* c = [feed, swiped_ids, limit, start_page, upstream]
\* ls = [deck, current_page, current_index, cursor, has_more, err, stop, pages]
deck_iteration(c, ls) ==
  LET asked == [ls EXCEPT !.pages = Append(@, ls.current_page)]
      \* after the for loop over the sliced results
      scanned(sc) ==
        IF sc.err # ""
        THEN [asked EXCEPT !.err = sc.err, !.stop = TRUE]
        ELSE IF Len(sc.deck) < c.limit
        THEN [asked EXCEPT !.deck = sc.deck,
                           !.current_page = @ + 1,
                           !.current_index = PyInt(0)]
        ELSE [asked EXCEPT !.deck = sc.deck, !.cursor = sc.cursor,
                           !.has_more = sc.has_more]
      \* after results = results[current_index:]
      sliced(sl) ==
        IF ~sl.ok THEN [asked EXCEPT !.err = "TypeError", !.stop = TRUE]
        ELSE scanned(scan_results(c, ls.current_page, ls.current_index,
                                  sl.seq, 1, ls.deck))
      \* after payload = await tmdb.discover_movies(page=current_page)
      fetched(payload) ==
        IF payload.err
        THEN [asked EXCEPT !.err = "HTTPStatusError", !.stop = TRUE]
        ELSE IF payload.results = <<>> THEN [asked EXCEPT !.stop = TRUE]
        ELSE sliced(IF ls.current_page = c.start_page
                    THEN PySliceFrom(payload.results, ls.current_index)
                    ELSE [ok |-> TRUE, seq |-> payload.results])
  IN fetched(discover_movies(c.feed, ls.current_page, c.upstream))

deck_continues_ignoring_limit(c, ls) ==
  ~ls.stop /\ ls.current_page <= PageCeiling

\* while len(deck_cards) < limit and current_page <= 500
deck_continues(c, ls) ==
  ~ls.stop /\ Len(ls.deck) < c.limit /\ ls.current_page <= PageCeiling

RECURSIVE deck_loop(_, _, _)
\* at most n passes of the while loop, in order (n is halved so that the
\* evaluation stays shallow)
deck_loop(c, ls, n) ==
  IF n <= 0 \/ ~deck_continues(c, ls) THEN ls
  ELSE IF n = 1 THEN deck_iteration(c, ls)
  ELSE
    LET h == n \div 2
        left == deck_loop(c, ls, h)
    IN IF ~deck_continues(c, left) THEN left ELSE deck_loop(c, left, n - h)

\* get_deck, lines 73..123: the deck, the next cursor and has_more, or the
\* exception that ends the call.  cursor is the optional cursor argument.
deck_scan(f, swiped_ids, limit, cursor, upstream) ==
  LET \* from start_page, start_index = decode_cursor(cursor)
      scan(start) ==
        LET start_page == start[1]
            ls0 == [deck |-> <<>>, current_page |-> 0,
                    current_index |-> start[2], cursor |-> NoCursor,
                    has_more |-> FALSE, err |-> "", stop |-> FALSE,
                    pages |-> <<>>]
        IN IF limit <= 0 THEN ls0
           ELSE IF start_page[1] \in {"none", "str", "list", "dict"}
           THEN [ls0 EXCEPT !.err = "TypeError"]
           ELSE IF start_page[1] \in {"float", "bool"}
           THEN IF upstream = "error"
                THEN [ls0 EXCEPT !.err = "HTTPStatusError"]
                ELSE ls0
           ELSE
             LET c == [feed |-> f, swiped_ids |-> swiped_ids, limit |-> limit,
                       start_page |-> start_page[2], upstream |-> upstream]
             IN deck_loop(c, [ls0 EXCEPT !.current_page = start_page[2]],
                          PageCeiling + 1 - start_page[2])
  IN scan(IF cursor.some /\ cursor.s # <<>> THEN decode_cursor(cursor.s)
          ELSE StartPosition)

\* ----------------------------------------------------- Store reads ----
\* read.get_user_by_email: the user row, as an optional
get_user_by_email(email) == {u \in users : u.email = email}

get_user_swiped_movie_ids(user_id) ==
  {r.movie_id : r \in {x \in swipes : x.user_id = user_id}}

get_user_master_list_movie_ids(user_id) ==
  {r.movie_id : r \in {x \in master_list : x.user_id = user_id}}

get_user_watch_later_movie_ids(user_id) ==
  {r.movie_id : r \in {x \in watch_later_list : x.user_id = user_id}}

get_user_seen_movie_ids_swipes_only(user_id) ==
  get_user_swiped_movie_ids(user_id)

get_user_seen_movie_ids(user_id) ==
  get_user_swiped_movie_ids(user_id)
    \cup get_user_master_list_movie_ids(user_id)
    \cup get_user_watch_later_movie_ids(user_id)

deck_swiped_ids_of_nobody(user_id) == {}

\* lines 76..82 of get_deck: an identity without a User row has seen nothing
deck_swiped_ids(user_id) ==
  LET user == get_user_by_email(user_id) IN
  IF user # {} THEN get_user_seen_movie_ids(The(user).id) ELSE {}

\* ------------------------------------------------ movies in a session --
\* A session (autoflush off) is [db, pending]: db is what a query sees,
\* the rows of the table with the changes made to loaded objects; pending
\* are the objects added and not yet flushed, which no query sees.
RowOf(table, id) == {r \in table : r.id = id}

create_or_update_movie(sess, card) ==
  LET found == RowOf(sess.db, card.id) IN
  IF found # {}
  THEN LET movie == The(found)
           kept(old, new) == IF new # None THEN new ELSE old
           updated == [id |-> movie.id,
                       title |-> card.title,
                       release_date |-> kept(movie.release_date, card.release_date),
                       poster_path |-> kept(movie.poster_path, card.poster_path),
                       backdrop_path |-> kept(movie.backdrop_path, card.backdrop_path),
                       overview |-> kept(movie.overview, card.overview)]
       IN [sess EXCEPT !.db = (@ \ found) \cup {updated}]
  ELSE [sess EXCEPT !.pending = Append(@, card)]

RECURSIVE save_movies(_, _, _)
\* for movie in deck_cards: edit.create_or_update_movie(...)
save_movies(sess, deck, k) ==
  IF k > Len(deck) THEN sess
  ELSE save_movies(create_or_update_movie(sess, deck[k]), deck, k + 1)

\* db.commit(): the flush inserts the pending rows; two rows with one
\* primary key end it with IntegrityError and nothing is written
commit_movies(sess) ==
  LET n == Len(sess.pending)
      clash == \E i, j \in 1..n : i < j /\ sess.pending[i].id = sess.pending[j].id
      taken == \E i \in 1..n : RowOf(sess.db, sess.pending[i].id) # {}
  IN IF clash \/ taken THEN [ok |-> FALSE, rows |-> sess.db]
     ELSE [ok |-> TRUE, rows |-> sess.db \cup {sess.pending[i] : i \in 1..n}]

\* one pass of the genre loop, lines 141..153: the associations of one
\* card.  failing are the movie ids whose get_movie_details call fails.
sync_movie_genres(mg, movie_id, failing) ==
  LET wanted == {[movie_id |-> movie_id, genre_id |-> g] :
                   g \in {x \in TmdbGenreIds(movie_id) : x # 0}}
      added == wanted \ mg
      known == \A r \in added : \E g \in genres : g.id = r.genre_id
  IN IF movie_id \in failing THEN mg
     ELSE IF ~known THEN mg
     ELSE mg \cup added

RECURSIVE sync_deck_genres_until_failure(_, _, _, _)
sync_deck_genres_until_failure(mg, deck, k, failing) ==
  IF k > Len(deck) THEN mg
  ELSE IF deck[k].id \in failing THEN mg
  ELSE sync_deck_genres_until_failure(
         sync_movie_genres(mg, deck[k].id, failing), deck, k + 1, failing)

RECURSIVE sync_deck_genres(_, _, _, _)
\* for movie in deck_cards: try ... except Exception: db.rollback()
sync_deck_genres(mg, deck, k, failing) ==
  IF k > Len(deck) THEN mg
  ELSE sync_deck_genres(sync_movie_genres(mg, deck[k].id, failing),
                        deck, k + 1, failing)

\* get_deck as a whole, on movies rows and movie_genres mg, for a user with
\* seen ids swiped_ids: the response and the rows of movies and movie_genres
\* after it.  An exception leaves the Store as it was: nothing was
\* committed before it.
deck_outcome(rows, mg, swiped_ids, limit, cursor, upstream, failing) ==
  LET failed(ls, e) ==
        [resp |-> [op |-> "get_deck", status |-> "error", error |-> e,
                   results |-> <<>>, cursor |-> NoCursor, has_more |-> FALSE,
                   pages |-> ls.pages],
         movies |-> rows, movie_genres |-> mg]
      \* after db.commit()
      committed(ls, saved) ==
        IF ~saved.ok THEN failed(ls, "IntegrityError")
        ELSE [resp |-> [op |-> "get_deck", status |-> "ok", error |-> "",
                        results |-> ls.deck, cursor |-> ls.cursor,
                        has_more |-> ls.has_more, pages |-> ls.pages],
              movies |-> saved.rows,
              movie_genres |-> sync_deck_genres(mg, ls.deck, 1, failing)]
      \* after the while loop
      scanned(ls) ==
        IF ls.err # "" THEN failed(ls, ls.err)
        ELSE committed(ls, commit_movies(save_movies(
                             [db |-> rows, pending |-> <<>>], ls.deck, 1)))
  IN scanned(deck_scan(feed, swiped_ids, limit, cursor, upstream))

deck_call(user_id, limit, cursor, upstream, failing) ==
  deck_outcome(movies, movie_genres, deck_swiped_ids(user_id), limit, cursor,
               upstream, failing)

NoHist == [some |-> FALSE]

get_deck_creating_user(user_id, limit, cursor, upstream, failing) ==
  LET respond(out) ==
        /\ req' = [op |-> "get_deck", user_id |-> user_id, limit |-> limit,
                   cursor |-> cursor]
        /\ resp' = out.resp
        /\ movies' = out.movies
        /\ movie_genres' = out.movie_genres
        /\ users' = IF get_user_by_email(user_id) # {} THEN users
                     ELSE users \cup {[id |-> Cardinality(users) + 1,
                                       email |-> user_id]}
        /\ UNCHANGED <<genres, swipes, master_list, watch_later_list,
                       friendships, now, feed>>
  IN respond(deck_call(user_id, limit, cursor, upstream, failing))

\* GET /deck
get_deck(user_id, limit, cursor, upstream, failing) ==
  LET respond(out) ==
        /\ req' = [op |-> "get_deck", user_id |-> user_id, limit |-> limit,
                   cursor |-> cursor]
        /\ resp' = out.resp
        /\ movies' = out.movies
        /\ movie_genres' = out.movie_genres
        /\ UNCHANGED <<users, genres, swipes, master_list, watch_later_list,
                       friendships, now, feed>>
  IN respond(deck_call(user_id, limit, cursor, upstream, failing))

\* ------------------------------------------------- deck sessions -------
\* JSON texts, as character codes, that encode_cursor never writes
ForeignJson ==
  {\* [1, 2]
   <<91, 49, 44, 32, 50, 93>>,
   \* {"index": 1}
   <<123, 34, 105, 110, 100, 101, 120, 34, 58, 32, 49, 125>>,
   \* {"page": null, "index": 0}
   <<123, 34, 112, 97, 103, 101, 34, 58, 32, 110, 117, 108, 108, 44, 32, 34, 105, 110, 100, 101, 120, 34, 58, 32, 48, 125>>,
   \* {"page": 1, "index": null}
   <<123, 34, 112, 97, 103, 101, 34, 58, 32, 49, 44, 32, 34, 105, 110, 100, 101, 120, 34, 58, 32, 110, 117, 108, 108, 125>>,
   \* {"page": "2", "index": 0}
   <<123, 34, 112, 97, 103, 101, 34, 58, 32, 34, 50, 34, 44, 32, 34, 105, 110, 100, 101, 120, 34, 58, 32, 48, 125>>,
   \* {"page": 1.5, "index": 0}
   <<123, 34, 112, 97, 103, 101, 34, 58, 32, 49, 46, 53, 44, 32, 34, 105, 110, 100, 101, 120, 34, 58, 32, 48, 125>>,
   \* {"page": -1, "index": 0}
   <<123, 34, 112, 97, 103, 101, 34, 58, 32, 45, 49, 44, 32, 34, 105, 110, 100, 101, 120, 34, 58, 32, 48, 125>>,
   \* {"page": 1, "index": -1}
   <<123, 34, 112, 97, 103, 101, 34, 58, 32, 49, 44, 32, 34, 105, 110, 100, 101, 120, 34, 58, 32, 45, 49, 125>>}

\* cursor strings that no encode_cursor call produced: "!!!", the base64
\* forms of ForeignJson, and a cursor cut short
ForeignCursors ==
  {<<33, 33, 33>>} \cup {b64encode(t) : t \in ForeignJson}
    \cup {SubSeq(encode_cursor(2, 1), 1, Len(encode_cursor(2, 1)) - 5)}

\* cursors of earlier sessions: page 0 and positions around the page ceiling
HeldCursors ==
  {encode_cursor(0, 0), encode_cursor(PageCeiling - 1, 0),
   encode_cursor(PageCeiling + 1, 0)}
    \cup {encode_cursor(PageCeiling, i) : i \in 0..MaxPageLen}

StartCursors ==
  {NoCursor} \cup {SomeCursor(s) : s \in HeldCursors \cup ForeignCursors}

\* the pages a feed can return: up to MaxPageLen entries, no id twice
FeedPages ==
  UNION {{p \in [1..n -> MovieIds] : \A i, j \in 1..n : i # j => p[i] # p[j]} :
           n \in 0..MaxPageLen}

Feeds == [pages : [1..MaxPages -> FeedPages], tail : FeedPages, down : {{}}]

DemoUser == [id |-> 1, email |-> "demo"]

\* the placeholder row ensure_movie_exists writes
Placeholder(m) ==
  [id |-> m, title |-> <<"TMDB", m>>, release_date |-> None,
   poster_path |-> None, backdrop_path |-> None, overview |-> None]

\* the list that holds seen id m in a session with these seen ids:
\* 1 the swipes, 2 the master list, 0 the watch-later list
SeenIn(m, seen) == (m + Cardinality(seen)) % 3

\* A deck session of "demo" starts with any feed and any seen set, the
\* seen ids spread over swipes, master list and watch-later list.
\* Before the first swipe or interaction "demo" has no User row.
InitDeck ==
  /\ feed \in Feeds
  /\ \E seen \in SUBSET MovieIds :
       /\ swipes = {[user_id |-> 1, movie_id |-> m, decision |-> 1,
                     swiped_at |-> 0] : m \in {x \in seen : SeenIn(x, seen) = 1}}
       /\ master_list = {[user_id |-> 1, movie_id |-> m, rating |-> None,
                          notes |-> None, added_at |-> 0] :
                            m \in {x \in seen : SeenIn(x, seen) = 2}}
       /\ watch_later_list = {[user_id |-> 1, movie_id |-> m, priority |-> 1,
                               added_at |-> 0] :
                                 m \in {x \in seen : SeenIn(x, seen) = 0}}
       /\ movies = {Placeholder(m) : m \in seen}
       /\ users \in IF seen = {} THEN {{}, {DemoUser}} ELSE {{DemoUser}}
  /\ genres = {}
  /\ movie_genres = {}
  /\ friendships = {}
  /\ now = 1
  /\ req = [op |-> "none"]
  /\ resp = [op |-> "none"]
  /\ hist = NoHist

\* What the source may answer to the calls of a deck request: the answer
\* to a page number it does not have matters only when the cursor starts
\* the scan at one.
UpstreamAnswers(cursor) ==
  LET answers(start) ==
        IF start[1][1] \in {"float", "bool"}
           \/ (start[1][1] = "int" /\ start[1][2] < 1)
        THEN {"error", "empty"} ELSE {"empty"}
  IN answers(IF cursor.some /\ cursor.s # <<>> THEN decode_cursor(cursor.s)
             ELSE StartPosition)

\* a client opens a deck: no cursor, a cursor it held, or a foreign string
DeckStart(user_id, limit, cursor, upstream, failing) ==
  /\ req.op = "none"
  /\ get_deck(user_id, limit, cursor, upstream, failing)
  /\ hist' = [some |-> FALSE, movies |-> movies]

\* the client passes the cursor of the last response back
DeckResume(limit, upstream, failing) ==
  /\ req.op = "get_deck"
  /\ ~hist.some
  /\ resp.cursor.some
  /\ get_deck(req.user_id, limit, resp.cursor, upstream, failing)
  /\ hist' = [some |-> TRUE, req |-> req, resp |-> resp,
              before |-> hist.movies, movies |-> movies]

NextDeck ==
  \/ \E limit \in 1..MaxLimit, cursor \in StartCursors :
       \E upstream \in UpstreamAnswers(cursor) :
         DeckStart("demo", limit, cursor, upstream, {})
  \/ \E limit \in 1..MaxLimit, upstream \in {"empty"} :
       DeckResume(limit, upstream, {})

SpecDeck == InitDeck /\ [][NextDeck]_vars

\* ------------------------------------------- the deck contract ---------
\* The deck the contract promises, read off the feed itself.

\* the ids on page p of the feed
PageAt(p) == IF p <= Len(feed.pages) THEN feed.pages[p] ELSE feed.tail

\* the seen set of an identity: swiped, master-list and watch-later ids
SeenBy(email) ==
  {m \in MovieIds :
     \E u \in users :
       /\ u.email = email
       /\ \/ \E r \in swipes : r.user_id = u.id /\ r.movie_id = m
          \/ \E r \in master_list : r.user_id = u.id /\ r.movie_id = m
          \/ \E r \in watch_later_list : r.user_id = u.id /\ r.movie_id = m}

\* the cursor is absent or is the encoding of a position on a page >= 1
ValidStart(cursor) ==
  \/ ~cursor.some
  \/ LET d == decode_cursor(cursor.s) IN
     /\ d[1][1] = "int" /\ d[2][1] = "int"
     /\ d[1][2] >= 1 /\ d[2][2] >= 0
     /\ encode_cursor(d[1][2], d[2][2]) = cursor.s

\* that position: <<page, entries of the page already passed>>
StartOf(cursor) ==
  IF cursor.some
  THEN <<decode_cursor(cursor.s)[1][2], decode_cursor(cursor.s)[2][2]>>
  ELSE <<1, 0>>

Min(a, b) == IF a < b THEN a ELSE b
Max(a, b) == IF a > b THEN a ELSE b

\* The unseen entries <<page, place on the page>> from the start on, up to
\* page 500 and before the first empty page.  Pages past the listed ones
\* are all alike, so the first n unseen entries lie within n pages of them.
UnseenFrom(start, seen, n) ==
  LET last == Min(PageCeiling, Max(start[1], Len(feed.pages)) + n) IN
  {x \in (start[1]..last) \X (1..MaxPageLen) :
     /\ x[2] <= Len(PageAt(x[1]))
     /\ x[1] > start[1] \/ x[2] > start[2]
     /\ PageAt(x[1])[x[2]] \notin seen
     /\ \A q \in start[1]..x[1] : PageAt(q) # <<>>}

Before(x, y) == x[1] < y[1] \/ (x[1] = y[1] /\ x[2] < y[2])

\* the k-th entry of U in feed order
Nth(U, k) == CHOOSE x \in U : Cardinality({y \in U : Before(y, x)}) = k - 1

\* the cards of the first n entries of U
FirstCards(U, n) ==
  [k \in 1..n |-> Card(TmdbEntry(PageAt(Nth(U, k)[1])[Nth(U, k)[2]]))]

\* C2: no card of a deck response has an id in the seen set of the user
\* the deck was built for, whatever the limit, the cursor and the feed
C2_NoSeenCard ==
  req.op = "get_deck" =>
    \A k \in 1..Len(resp.results) : resp.results[k].id \notin SeenBy(req.user_id)

\* a deck from the start whose first card follows a seen entry of page 1
C2_SeenEntrySkipped ==
  /\ req.op = "get_deck" /\ ~req.cursor.some
  /\ resp.status = "ok" /\ Len(resp.results) >= 1
  /\ Len(feed.pages[1]) >= 2
  /\ feed.pages[1][1] \in SeenBy(req.user_id)
  /\ resp.results[1].id = feed.pages[1][2]

\* C3: when the feed holds at least limit unseen entries from the start
\* on, the deck is the first limit of them, has_more is true and the cursor
\* decodes to the page of the last card and the place after it
C3_ExactlyLimitCards ==
  (req.op = "get_deck" /\ ValidStart(req.cursor)) =>
    LET U == UnseenFrom(StartOf(req.cursor), SeenBy(req.user_id), req.limit)
        x == Nth(U, req.limit)
    IN Cardinality(U) >= req.limit =>
         /\ resp.status = "ok"
         /\ resp.results = FirstCards(U, req.limit)
         /\ resp.has_more
         /\ resp.cursor.some
         /\ decode_cursor(resp.cursor.s) = <<PyInt(x[1]), PyInt(x[2])>>

\* C4: when the scan meets an empty page or passes page 500 before limit
\* unseen entries, the deck is the cards met so far, has_more is false and
\* there is no cursor
C4_ShortDeckEnds ==
  (req.op = "get_deck" /\ ValidStart(req.cursor)) =>
    LET U == UnseenFrom(StartOf(req.cursor), SeenBy(req.user_id), req.limit)
    IN Cardinality(U) < req.limit =>
         /\ resp.status = "ok"
         /\ resp.results = FirstCards(U, Cardinality(U))
         /\ ~resp.has_more
         /\ ~resp.cursor.some

\* the response of the same request made right before, with this limit and
\* this cursor
DeckBefore(rows, limit, cursor) ==
  deck_outcome(rows, {}, SeenBy(req.user_id), limit, cursor, "empty", {}).resp

\* C1: the cards of a call followed by the cards of the call that resumes
\* at its cursor are the cards of one call for both limits together
C1_ResumeIsOneDeck ==
  (req.op = "get_deck" /\ hist.some /\ ValidStart(hist.req.cursor)) =>
    LET one == DeckBefore(hist.before, hist.req.limit + req.limit,
                          hist.req.cursor)
    IN /\ resp.status = "ok"
       /\ one.status = "ok"
       /\ one.results = hist.resp.results \o resp.results

\* C5: a deck call does not fail because of its cursor, and a cursor that
\* encode_cursor did not produce gives the response of a call with none
C5_CursorNeverFails ==
  (req.op = "get_deck" /\ ~hist.some) =>
    LET plain == DeckBefore(hist.movies, req.limit, NoCursor) IN
    /\ resp.status = "error" => plain.status = "error"
    /\ (req.cursor.some /\ req.cursor.s \in ForeignCursors) => resp = plain

\* --------------------------------------------------- cursor codec ------
\* The rest of the state, for a specification that never touches the Store
EmptyStore ==
  /\ users = {} /\ movies = {} /\ genres = {} /\ movie_genres = {}
  /\ swipes = {} /\ master_list = {} /\ watch_later_list = {}
  /\ friendships = {} /\ now = 1

NoFeed == [pages |-> <<>>, tail |-> <<>>, down |-> {}]

\* pages and indexes to encode: the small ones, the page ceiling, and the
\* largest integer of the model
CursorArgs == (0..MaxCursorArg) \cup {PageCeiling, 2147483647}

InitCodec ==
  /\ EmptyStore
  /\ feed = NoFeed
  /\ req = [op |-> "none"]
  /\ resp = [op |-> "none"]
  /\ hist = NoHist

\* next_cursor = encode_cursor(page, index)
EncodeCursor(page, index) ==
  /\ req.op = "none"
  /\ req' = [op |-> "encode_cursor", page |-> page, index |-> index]
  /\ resp' = [op |-> "encode_cursor", cursor |-> encode_cursor(page, index)]
  /\ hist' = NoHist
  /\ UNCHANGED <<store, feed>>

\* the cursor just encoded comes back and is decoded
DecodeReturnedCursor ==
  /\ resp.op = "encode_cursor"
  /\ req' = [op |-> "decode_cursor", cursor |-> resp.cursor]
  /\ resp' = [op |-> "decode_cursor", value |-> decode_cursor(resp.cursor)]
  /\ hist' = [some |-> TRUE, req |-> req, resp |-> resp]
  /\ UNCHANGED <<store, feed>>

\* a string that is no cursor is decoded
DecodeForeignCursor(cursor) ==
  /\ req.op = "none"
  /\ req' = [op |-> "decode_cursor", cursor |-> cursor]
  /\ resp' = [op |-> "decode_cursor", value |-> decode_cursor(cursor)]
  /\ hist' = NoHist
  /\ UNCHANGED <<store, feed>>

NextCodec ==
  \/ \E page \in CursorArgs, index \in CursorArgs : EncodeCursor(page, index)
  \/ DecodeReturnedCursor
  \/ \E cursor \in ForeignCursors : DecodeForeignCursor(cursor)

SpecCodec == InitCodec /\ [][NextCodec]_vars

\* C6: a string that is not the encoding of a pair of non-negative
\* integers decodes to the start position (1, 0)
C6_ForeignDecodesToStart ==
  (req.op = "decode_cursor" /\ ~hist.some) => resp.value = StartPosition

\* C7: decoding the encoding of non-negative page and index gives page and
\* index back
C7_RoundTrip ==
  (req.op = "decode_cursor" /\ hist.some) =>
    resp.value = <<PyInt(hist.req.page), PyInt(hist.req.index)>>

\* the cursor of page 10, index 0 has come back as (10, 0)
C7_RoundTripDone ==
  /\ req.op = "decode_cursor" /\ hist.some
  /\ hist.req.page = 10 /\ hist.req.index = 0
  /\ resp.value[1][2] = 10 /\ resp.value[2][2] = 0

\* ------------------------------------------------------- swipes --------
\* uuid.uuid4 of a new User row: an id no row has.  Which one is of no
\* consequence, the ids are only compared; the least unused is taken.
NewUuid(rows) ==
  CHOOSE id \in Uuids :
    /\ \A u \in rows : u.id # id
    /\ \A other \in Uuids : (\A u \in rows : u.id # other) => id <= other

\* edit.create_or_get_user: the users rows after it (the new row is
\* flushed at once) and the user
create_or_get_user(rows, email) ==
  LET found == {u \in rows : u.email = email}
      user == [id |-> NewUuid(rows), email |-> email]
  IN IF found # {} THEN [rows |-> rows, user |-> The(found)]
     ELSE [rows |-> rows \cup {user}, user |-> user]

ensure_movie_exists_never_adds(rows, movie_id) == rows

\* edit.ensure_movie_exists without a title: the movies rows after it
ensure_movie_exists(rows, movie_id) ==
  IF RowOf(rows, movie_id) # {} THEN rows
  ELSE rows \cup {Placeholder(movie_id)}

decision_to_int(decision) == IF decision = "like" THEN 1 ELSE -1

\* edit.create_swipe: the new Swipe object; swiped_at is set at the flush
create_swipe(user_id, movie_id, decision) ==
  [user_id |-> user_id, movie_id |-> movie_id, decision |-> decision,
   swiped_at |-> now]

flush_swipe_unkeyed(rows, swipe) ==
  [ok |-> TRUE, rows |-> rows \cup {swipe}]

\* the INSERT of a swipe at commit: the primary key (user_id, movie_id) of
\* swipes refuses a second row for the pair
flush_swipe(rows, swipe) ==
  IF \E r \in rows : r.user_id = swipe.user_id /\ r.movie_id = swipe.movie_id
  THEN [ok |-> FALSE, rows |-> rows]
  ELSE [ok |-> TRUE, rows |-> rows \cup {swipe}]

\* POST /swipe: process_swipe, and the handler's answer to its exception:
\* rollback, and 409 for the duplicate key error of the database
swipe(user_id, movie_id, decision) ==
  LET got == create_or_get_user(users, user_id)
      rows == ensure_movie_exists(movies, movie_id)
      new == create_swipe(got.user.id, movie_id, decision_to_int(decision))
      done == flush_swipe(swipes, new)
  IN /\ req' = [op |-> "swipe", user_id |-> user_id, movie_id |-> movie_id,
                decision |-> decision]
     /\ IF done.ok
        THEN /\ now <= MaxClock
             /\ users' = got.rows
             /\ movies' = rows
             /\ swipes' = done.rows
             /\ now' = now + 1
             /\ resp' = [op |-> "swipe", status |-> 200, ok |-> TRUE,
                         user_id |-> user_id, movie_id |-> movie_id,
                         decision |-> decision]
        ELSE /\ UNCHANGED <<users, movies, swipes, now>>
             /\ resp' = [op |-> "swipe", status |-> 409,
                         detail |-> "Already swiped"]
     /\ UNCHANGED <<genres, movie_genres, master_list, watch_later_list,
                    friendships, feed, hist>>

InitSwipe ==
  /\ EmptyStore
  /\ feed = NoFeed
  /\ req = [op |-> "none"]
  /\ resp = [op |-> "none"]
  /\ hist = NoHist

NextSwipe ==
  \E user_id \in Emails, movie_id \in MovieIds, decision \in {"like", "nope"} :
    swipe(user_id, movie_id, decision)

SpecSwipe == InitSwipe /\ [][NextSwipe]_vars

\* the swipes of an identity on a movie
SwipesOf(email, movie_id) ==
  {r \in swipes : r.movie_id = movie_id
                  /\ \E u \in users : u.email = email /\ u.id = r.user_id}

\* a swipe request: the first for its user and movie is answered 200 and
\* adds one swipe with its decision; a later one is answered 409 and
\* leaves the swipes as they are
SwipeOnce ==
  req'.op = "swipe" =>
    IF SwipesOf(req'.user_id, req'.movie_id) = {}
    THEN /\ resp'.status = 200
         /\ \E r \in swipes' :
              /\ swipes' = swipes \cup {r}
              /\ r \notin swipes
              /\ r.movie_id = req'.movie_id
              /\ r.decision = decision_to_int(req'.decision)
              /\ \E u \in users' : u.email = req'.user_id /\ u.id = r.user_id
    ELSE /\ resp'.status = 409
         /\ swipes' = swipes

OneSwipePerPair ==
  \A r1, r2 \in swipes :
    (r1.user_id = r2.user_id /\ r1.movie_id = r2.movie_id) => r1 = r2

\* C8: the first swipe of a user on a movie succeeds and is stored, every
\* later one is answered Conflict and the stored swipe keeps its decision
\* and timestamp; no state has two swipes of one user on one movie
C8_FirstSwipeWins == [][SwipeOnce]_vars /\ []OneSwipePerPair

\* a nope on a movie the user liked before has been refused, and the
\* like is still what is stored
C8_SecondSwipeRefused ==
  /\ req.op = "swipe" /\ req.decision = "nope"
  /\ resp.status = 409
  /\ \E r \in SwipesOf(req.user_id, req.movie_id) : r.decision = 1 /\ r.swiped_at < now - 1

\* -------------------------------------------------------- lists --------
\* ratings, in tenths: 0.0 and 4.5
Ratings == {0, 45}

\* Python truth of an Optional[bool]
Truthy(o) == o = Some(TRUE)

MasterItem(rows, user_id, movie_id) ==
  {r \in rows : r.user_id = user_id /\ r.movie_id = movie_id}

WatchItem(rows, user_id, movie_id) ==
  {r \in rows : r.user_id = user_id /\ r.movie_id = movie_id}

create_or_update_master_list_item_replacing(rows, user_id, movie_id, rating, notes) ==
  {r \in rows : r.user_id # user_id}
    \cup {[user_id |-> user_id, movie_id |-> movie_id, rating |-> rating,
           notes |-> notes, added_at |-> now]}

\* edit.create_or_update_master_list_item: the master_list rows after it
create_or_update_master_list_item(rows, user_id, movie_id, rating, notes) ==
  LET found == MasterItem(rows, user_id, movie_id) IN
  IF found # {}
  THEN LET item == The(found) IN
       (rows \ found) \cup
         {[item EXCEPT !.rating = IF rating # None THEN rating ELSE @,
                       !.notes = IF notes # None THEN notes ELSE @]}
  ELSE rows \cup {[user_id |-> user_id, movie_id |-> movie_id,
                   rating |-> rating, notes |-> notes, added_at |-> now]}

\* edit.create_or_update_watch_later_item
create_or_update_watch_later_item(rows, user_id, movie_id, priority) ==
  LET found == WatchItem(rows, user_id, movie_id) IN
  IF found # {}
  THEN (rows \ found) \cup {[The(found) EXCEPT !.priority = priority]}
  ELSE rows \cup {[user_id |-> user_id, movie_id |-> movie_id,
                   priority |-> priority, added_at |-> now]}

edit_update_master_list_item_if_truthy(rows, user_id, movie_id, rating, notes) ==
  LET found == MasterItem(rows, user_id, movie_id) IN
  IF found # {}
  THEN LET item == The(found) IN
       (rows \ found) \cup
         {[item EXCEPT !.rating = IF rating # None /\ rating # Some(0)
                                  THEN rating ELSE @,
                       !.notes = IF notes # None THEN notes ELSE @]}
  ELSE rows

\* edit.update_master_list_item
edit_update_master_list_item(rows, user_id, movie_id, rating, notes) ==
  LET found == MasterItem(rows, user_id, movie_id) IN
  IF found # {}
  THEN LET item == The(found) IN
       (rows \ found) \cup
         {[item EXCEPT !.rating = IF rating # None THEN rating ELSE @,
                       !.notes = IF notes # None THEN notes ELSE @]}
  ELSE rows

\* edit.update_watch_later_item
edit_update_watch_later_item(rows, user_id, movie_id, priority) ==
  LET found == WatchItem(rows, user_id, movie_id) IN
  IF found # {}
  THEN (rows \ found) \cup {[The(found) EXCEPT !.priority = priority]}
  ELSE rows

NotFound(op, detail) == [op |-> op, status |-> 404, detail |-> detail]

\* POST /movie-interaction: process_movie_interaction
movie_interaction(user_id, movie_id, have_you_seen, did_you_like, want_to_see, rating, notes, priority) ==
  LET got == create_or_get_user(users, user_id)
      to_master == have_you_seen /\ Truthy(did_you_like)
      to_watch == ~have_you_seen /\ Truthy(want_to_see)
      \* priority or 1
      prio == IF priority # None /\ priority # Some(0) THEN The(priority) ELSE 1
      stamped == \/ to_master /\ MasterItem(master_list, got.user.id, movie_id) = {}
                 \/ to_watch /\ WatchItem(watch_later_list, got.user.id, movie_id) = {}
  IN /\ now <= MaxClock
     /\ req' = [op |-> "movie_interaction", user_id |-> user_id,
                movie_id |-> movie_id, have_you_seen |-> have_you_seen,
                did_you_like |-> did_you_like, want_to_see |-> want_to_see,
                rating |-> rating, notes |-> notes, priority |-> priority]
     /\ users' = got.rows
     /\ movies' = ensure_movie_exists(movies, movie_id)
     /\ master_list' =
          IF to_master
          THEN create_or_update_master_list_item(master_list, got.user.id,
                                                 movie_id, rating, notes)
          ELSE master_list
     /\ watch_later_list' =
          IF to_watch
          THEN create_or_update_watch_later_item(watch_later_list, got.user.id,
                                                 movie_id, prio)
          ELSE watch_later_list
     /\ now' = IF stamped THEN now + 1 ELSE now
     /\ resp' = [op |-> "movie_interaction", status |-> 200, ok |-> TRUE,
                 user_id |-> user_id, movie_id |-> movie_id,
                 action |-> IF to_master THEN "saved_to_master_list"
                            ELSE IF to_watch THEN "saved_to_watch_later"
                            ELSE "skipped",
                 details |-> IF to_master
                             THEN Some([rating |-> rating, notes |-> notes])
                             ELSE IF to_watch THEN Some([priority |-> prio])
                             ELSE None]
     /\ UNCHANGED <<genres, movie_genres, swipes, friendships, feed, hist>>

\* PUT /master-list/{movie_id}: update_master_list_item
update_master_list_item(user_id, movie_id, rating, notes) ==
  LET user == get_user_by_email(user_id) IN
  /\ req' = [op |-> "update_master_list_item", user_id |-> user_id,
             movie_id |-> movie_id, rating |-> rating, notes |-> notes]
  /\ IF user = {}
     THEN /\ resp' = NotFound("update_master_list_item", "User not found")
          /\ UNCHANGED master_list
     ELSE IF MasterItem(master_list, The(user).id, movie_id) = {}
     THEN /\ resp' = NotFound("update_master_list_item", "Movie not in master list")
          /\ UNCHANGED master_list
     ELSE /\ master_list' = edit_update_master_list_item(
                              master_list, The(user).id, movie_id, rating, notes)
          /\ resp' = [op |-> "update_master_list_item", status |-> 200,
                      ok |-> TRUE, movie_id |-> movie_id, rating |-> rating,
                      notes |-> notes]
  /\ UNCHANGED <<users, movies, genres, movie_genres, swipes,
                 watch_later_list, friendships, now, feed, hist>>

\* DELETE /master-list/{movie_id}: delete_from_master_list
delete_from_master_list(user_id, movie_id) ==
  LET user == get_user_by_email(user_id) IN
  /\ req' = [op |-> "delete_from_master_list", user_id |-> user_id,
             movie_id |-> movie_id]
  /\ IF user = {}
     THEN /\ resp' = NotFound("delete_from_master_list", "User not found")
          /\ UNCHANGED master_list
     ELSE IF MasterItem(master_list, The(user).id, movie_id) = {}
     THEN /\ resp' = NotFound("delete_from_master_list", "Movie not in master list")
          /\ UNCHANGED master_list
     ELSE /\ master_list' = master_list \ MasterItem(master_list, The(user).id,
                                                     movie_id)
          /\ resp' = [op |-> "delete_from_master_list", status |-> 200,
                      ok |-> TRUE, message |-> "Movie removed from master list"]
  /\ UNCHANGED <<users, movies, genres, movie_genres, swipes,
                 watch_later_list, friendships, now, feed, hist>>

\* PUT /watch-later-list/{movie_id}: update_watch_later_item
update_watch_later_item(user_id, movie_id, priority) ==
  LET user == get_user_by_email(user_id) IN
  /\ req' = [op |-> "update_watch_later_item", user_id |-> user_id,
             movie_id |-> movie_id, priority |-> priority]
  /\ IF user = {}
     THEN /\ resp' = NotFound("update_watch_later_item", "User not found")
          /\ UNCHANGED watch_later_list
     ELSE IF WatchItem(watch_later_list, The(user).id, movie_id) = {}
     THEN /\ resp' = NotFound("update_watch_later_item",
                              "Movie not in watch later list")
          /\ UNCHANGED watch_later_list
     ELSE /\ watch_later_list' = edit_update_watch_later_item(
                                   watch_later_list, The(user).id, movie_id,
                                   priority)
          /\ resp' = [op |-> "update_watch_later_item", status |-> 200,
                      ok |-> TRUE, movie_id |-> movie_id, priority |-> priority]
  /\ UNCHANGED <<users, movies, genres, movie_genres, swipes, master_list,
                 friendships, now, feed, hist>>

\* DELETE /watch-later-list/{movie_id}: delete_from_watch_later
delete_from_watch_later(user_id, movie_id) ==
  LET user == get_user_by_email(user_id) IN
  /\ req' = [op |-> "delete_from_watch_later", user_id |-> user_id,
             movie_id |-> movie_id]
  /\ IF user = {}
     THEN /\ resp' = NotFound("delete_from_watch_later", "User not found")
          /\ UNCHANGED watch_later_list
     ELSE IF WatchItem(watch_later_list, The(user).id, movie_id) = {}
     THEN /\ resp' = NotFound("delete_from_watch_later",
                              "Movie not in watch later list")
          /\ UNCHANGED watch_later_list
     ELSE /\ watch_later_list' =
               watch_later_list \ WatchItem(watch_later_list, The(user).id,
                                            movie_id)
          /\ resp' = [op |-> "delete_from_watch_later", status |-> 200,
                      ok |-> TRUE,
                      message |-> "Movie removed from watch later list"]
  /\ UNCHANGED <<users, movies, genres, movie_genres, swipes, master_list,
                 friendships, now, feed, hist>>

InitLists ==
  /\ EmptyStore
  /\ feed = NoFeed
  /\ req = [op |-> "none"]
  /\ resp = [op |-> "none"]
  /\ hist = NoHist

OptRatings == {None} \cup {Some(r) : r \in Ratings}
OptNotes == {None, Some("great")}
OptBools == {None, Some(TRUE), Some(FALSE)}

\* the lists of one user: a list operation reads and writes only rows of
\* the user it is called for
ListUsers == {"demo"}

\* An interaction request carries the fields of the branch it takes; the
\* fields the branch does not read are absent.
NextLists ==
  \/ \E user_id \in ListUsers, movie_id \in MovieIds, did_you_like \in OptBools,
        rating \in OptRatings, notes \in OptNotes :
       movie_interaction(user_id, movie_id, TRUE, did_you_like, None, rating,
                         notes, None)
  \/ \E user_id \in ListUsers, movie_id \in MovieIds, want_to_see \in OptBools,
        priority \in {None, Some(2)} :
       movie_interaction(user_id, movie_id, FALSE, None, want_to_see, None,
                         None, priority)
  \/ \E user_id \in ListUsers, movie_id \in MovieIds, rating \in OptRatings,
        notes \in OptNotes :
       update_master_list_item(user_id, movie_id, rating, notes)
  \/ \E user_id \in ListUsers, movie_id \in MovieIds :
       delete_from_master_list(user_id, movie_id)
  \/ \E user_id \in ListUsers, movie_id \in MovieIds, priority \in {1, 3} :
       update_watch_later_item(user_id, movie_id, priority)
  \/ \E user_id \in ListUsers, movie_id \in MovieIds :
       delete_from_watch_later(user_id, movie_id)

SpecLists == InitLists /\ [][NextLists]_vars

\* the master-list item of an identity for a movie, in rows
ItemOf(rows, userRows, email, movie_id) ==
  {r \in rows : r.movie_id = movie_id
                /\ \E u \in userRows : u.email = email /\ u.id = r.user_id}

\* the step is an update of a master-list item that exists
UpdatesMasterItem ==
  /\ \/ req'.op = "update_master_list_item"
     \/ /\ req'.op = "movie_interaction"
        /\ req'.have_you_seen /\ req'.did_you_like = Some(TRUE)
  /\ ItemOf(master_list, users, req'.user_id, req'.movie_id) # {}

\* such a step leaves one item for the pair, with the supplied fields set,
\* the other fields and added_at as they were, and every other row as it was
OnlySuppliedFieldsChange ==
  UpdatesMasterItem =>
    LET old == ItemOf(master_list, users, req'.user_id, req'.movie_id)
        new == ItemOf(master_list', users', req'.user_id, req'.movie_id)
    IN /\ Cardinality(new) = 1
       /\ master_list' \ new = master_list \ old
       /\ \A o \in old, n \in new :
            /\ n.added_at = o.added_at
            /\ n.rating = IF req'.rating # None THEN req'.rating ELSE o.rating
            /\ n.notes = IF req'.notes # None THEN req'.notes ELSE o.notes

\* C9: an update of an existing master-list item, by update_master_list_item
\* or by an interaction (seen and liked), sets the supplied fields (a rating
\* of 0.0 is supplied) and changes no other field, and never added_at
C9_UpdateKeepsTheRest == [][OnlySuppliedFieldsChange]_vars

\* an update with rating 0.0 and no notes has been applied to an item that
\* had notes, after another row was stamped
C9_RatingZeroApplied ==
  /\ req.op = "update_master_list_item"
  /\ req.rating = Some(0) /\ req.notes = None
  /\ resp.status = 200
  /\ \E r \in ItemOf(master_list, users, req.user_id, req.movie_id) :
       r.rating = Some(0) /\ r.notes = Some("great") /\ r.added_at < now - 1

\* ------------------------------------------------------ friends --------
get_user_by_id(id) == {u \in users : u.id = id}

create_or_update_friendship_mutual(rows, user_id, friend_id, status) ==
  LET found == {r \in rows : r.user_id = user_id /\ r.friend_id = friend_id}
      back == {r \in rows : r.user_id = friend_id /\ r.friend_id = user_id}
      written == IF back # {} THEN "accepted" ELSE status
  IN IF found # {}
     THEN (rows \ found) \cup {[The(found) EXCEPT !.status = written]}
     ELSE rows \cup {[user_id |-> user_id, friend_id |-> friend_id,
                      status |-> written, created_at |-> now]}

\* edit.create_or_update_friendship: the lookup is by (user_id, friend_id),
\* the primary key, in that direction only
create_or_update_friendship(rows, user_id, friend_id, status) ==
  LET found == {r \in rows : r.user_id = user_id /\ r.friend_id = friend_id} IN
  IF found # {}
  THEN (rows \ found) \cup {[The(found) EXCEPT !.status = status]}
  ELSE rows \cup {[user_id |-> user_id, friend_id |-> friend_id,
                   status |-> status, created_at |-> now]}

delete_friendship_one_way(rows, user_id, friend_id) ==
  rows \ {r \in rows : r.user_id = user_id /\ r.friend_id = friend_id}

\* edit.delete_friendship: both directions
delete_friendship(rows, user_id, friend_id) ==
  rows \ {r \in rows : \/ r.user_id = user_id /\ r.friend_id = friend_id
                       \/ r.user_id = friend_id /\ r.friend_id = user_id}

\* POST /friends/add: send_friend_request
send_friend_request(user_id, friend_email) ==
  LET user == get_user_by_email(user_id)
      friend == get_user_by_email(friend_email)
  IN /\ req' = [op |-> "send_friend_request", user_id |-> user_id,
                friend_email |-> friend_email]
     /\ IF user = {}
        THEN /\ resp' = NotFound("send_friend_request", "User not found")
             /\ UNCHANGED <<friendships, now>>
        ELSE IF friend = {}
        THEN /\ resp' = NotFound("send_friend_request", "Friend not found")
             /\ UNCHANGED <<friendships, now>>
        ELSE IF The(user).id = The(friend).id
        THEN /\ resp' = NotFound("send_friend_request", "Cannot friend yourself")
             /\ UNCHANGED <<friendships, now>>
        ELSE /\ now <= MaxClock
             /\ friendships' = create_or_update_friendship(
                                 friendships, The(user).id, The(friend).id,
                                 "pending")
             /\ now' = IF \E r \in friendships : /\ r.user_id = The(user).id
                                                 /\ r.friend_id = The(friend).id
                       THEN now ELSE now + 1
             /\ resp' = [op |-> "send_friend_request", status |-> 200,
                         ok |-> TRUE, friend_email |-> friend_email]
     /\ UNCHANGED <<users, movies, genres, movie_genres, swipes, master_list,
                    watch_later_list, feed, hist>>

\* POST /friends/{friend_id}/remove: remove_friend
remove_friend(user_id, friend_id) ==
  LET user == get_user_by_email(user_id) IN
  /\ req' = [op |-> "remove_friend", user_id |-> user_id,
             friend_id |-> friend_id]
  /\ IF user = {}
     THEN /\ resp' = NotFound("remove_friend", "User not found")
          /\ UNCHANGED friendships
     ELSE /\ friendships' = delete_friendship(friendships, The(user).id,
                                              friend_id)
          /\ resp' = [op |-> "remove_friend", status |-> 200, ok |-> TRUE,
                      message |-> "Friendship removed"]
  /\ UNCHANGED <<users, movies, genres, movie_genres, swipes, master_list,
                 watch_later_list, now, feed, hist>>

\* the rows of a query without ORDER BY, in the order the Store returns
\* them (with the two users of Emails no such query has two rows)
RECURSIVE AllRows(_)
AllRows(rows) ==
  IF rows = {} THEN <<>>
  ELSE LET r == CHOOSE x \in rows : TRUE IN <<r>> \o AllRows(rows \ {r})

\* read.get_user_friends: accepted rows out of and into user_id
get_user_friends(user_id) ==
  [outgoing |-> AllRows({r \in friendships :
                           r.user_id = user_id /\ r.status = "accepted"}),
   incoming |-> AllRows({r \in friendships :
                           r.friend_id = user_id /\ r.status = "accepted"})]

RECURSIVE friend_entries(_, _, _)
\* the two loops of get_user_friends_list: an entry for each row whose
\* other side has a User row; outgoing tells which side that is
friend_entries(rows, outgoing, k) ==
  IF k > Len(rows) THEN <<>>
  ELSE LET other == IF outgoing THEN rows[k].friend_id ELSE rows[k].user_id
           friend == get_user_by_id(other)
       IN (IF friend # {}
           THEN <<[id |-> other, email |-> The(friend).email,
                   status |-> "accepted", created_at |-> rows[k].created_at]>>
           ELSE <<>>)
          \o friend_entries(rows, outgoing, k + 1)

RECURSIVE sort_created_at_desc(_)
\* result.sort(key=created_at, reverse=True): stable, newest first
sort_created_at_desc(result) ==
  IF result = <<>> THEN <<>>
  ELSE LET newest == CHOOSE k \in 1..Len(result) :
                       /\ \A j \in 1..Len(result) :
                            result[j].created_at <= result[k].created_at
                       /\ \A j \in 1..(k - 1) :
                            result[j].created_at < result[k].created_at
       IN <<result[newest]>> \o
          sort_created_at_desc(SubSeq(result, 1, newest - 1)
                               \o SubSeq(result, newest + 1, Len(result)))

\* business_logic.get_user_friends_list
friends_list(user_id) ==
  LET user == get_user_by_email(user_id) IN
  IF user = {} THEN <<>>
  ELSE LET found == get_user_friends(The(user).id) IN
       sort_created_at_desc(friend_entries(found.outgoing, TRUE, 1)
                            \o friend_entries(found.incoming, FALSE, 1))

\* GET /friends
get_user_friends_list(user_id) ==
  /\ req' = [op |-> "get_user_friends_list", user_id |-> user_id]
  /\ resp' = [op |-> "get_user_friends_list", status |-> 200,
              results |-> friends_list(user_id)]
  /\ UNCHANGED <<store, feed, hist>>

BothUsers == {DemoUser, [id |-> 2, email |-> "ann"]}

\* the friendship rows the schema admits between the users: at most one
\* per ordered pair (the primary key), of any status
FriendshipTables ==
  {t \in SUBSET [user_id : {1, 2}, friend_id : {1, 2},
                 status : {"pending", "accepted", "blocked"},
                 created_at : {0}] :
     /\ \A r \in t : r.user_id # r.friend_id
     /\ \A r1, r2 \in t :
          (r1.user_id = r2.user_id /\ r1.friend_id = r2.friend_id) => r1 = r2}

\* Both users have a row.  No operation here writes a status other than
\* pending; accepted and blocked rows are written to the Store from
\* outside, so a run starts from any table the schema admits.
InitFriends ==
  /\ users = BothUsers
  /\ friendships \in FriendshipTables
  /\ movies = {} /\ genres = {} /\ movie_genres = {} /\ swipes = {}
  /\ master_list = {} /\ watch_later_list = {}
  /\ now = 1
  /\ feed = NoFeed
  /\ req = [op |-> "none"]
  /\ resp = [op |-> "none"]
  /\ hist = NoHist

NextFriends ==
  \/ \E user_id \in Emails \cup {"bob"}, friend_email \in Emails \cup {"bob"} :
       send_friend_request(user_id, friend_email)
  \/ \E user_id \in Emails \cup {"bob"}, friend_id \in Uuids :
       remove_friend(user_id, friend_id)
  \/ \E user_id \in Emails \cup {"bob"} : get_user_friends_list(user_id)

SpecFriends == InitFriends /\ [][NextFriends]_vars

\* the user rows with an accepted friendship row, in either direction,
\* with the user of this email
AcceptedFriendsOf(email) ==
  {b \in users :
     \E a \in users :
       /\ a.email = email /\ a.id # b.id
       /\ \E r \in friendships :
            /\ r.status = "accepted"
            /\ \/ r.user_id = a.id /\ r.friend_id = b.id
               \/ r.user_id = b.id /\ r.friend_id = a.id}

\* C10: the friends list of a user holds each user with whom there is an
\* accepted friendship exactly once, whichever side sent the request and
\* whatever rows the Store holds for the pair
C10_FriendListedOnce ==
  req.op = "get_user_friends_list" =>
    \A b \in AcceptedFriendsOf(req.user_id) :
      Cardinality({k \in 1..Len(resp.results) : resp.results[k].id = b.id}) = 1

\* ------------------------------------------------ removing a friend ----
ThreeUsers == BothUsers \cup {[id |-> 3, email |-> "bob"]}

\* the friendship rows the schema admits between three users: for each
\* ordered pair no row, or one row of some status
FriendshipTables3 ==
  LET pairs == {p \in (1..3) \X (1..3) : p[1] # p[2]} IN
  {{[user_id |-> p[1], friend_id |-> p[2], status |-> f[p], created_at |-> 0] :
      p \in {q \in pairs : f[q] # "none"}} :
     f \in [pairs -> {"none", "pending", "accepted", "blocked"}]}

\* removals on any table the schema admits
InitRemove ==
  /\ users = ThreeUsers
  /\ friendships \in FriendshipTables3
  /\ movies = {} /\ genres = {} /\ movie_genres = {} /\ swipes = {}
  /\ master_list = {} /\ watch_later_list = {}
  /\ now = 1
  /\ feed = NoFeed
  /\ req = [op |-> "none"]
  /\ resp = [op |-> "none"]
  /\ hist = NoHist

\* "eve" has no User row, and no user has id 4
NextRemove ==
  \E user_id \in {"demo", "ann", "bob", "eve"}, friend_id \in 1..4 :
    remove_friend(user_id, friend_id)

SpecRemove == InitRemove /\ [][NextRemove]_vars

\* the row is one of the pair a, b
OfPair(r, a, b) ==
  \/ r.user_id = a /\ r.friend_id = b
  \/ r.user_id = b /\ r.friend_id = a

RemoveClearsPair ==
  (req'.op = "remove_friend" /\ resp'.status = 200) =>
    LET a == The(get_user_by_email(req'.user_id)).id
        b == req'.friend_id
    IN /\ \A r \in friendships' : ~OfPair(r, a, b)
       /\ {r \in friendships' : ~OfPair(r, a, b)}
            = {r \in friendships : ~OfPair(r, a, b)}

\* C11: after a successful remove_friend(A, B) the Store holds no
\* friendship row of the pair in either direction, and the rows of every
\* other pair are as they were
C11_RemoveClearsPair == [][RemoveClearsPair]_vars

\* "demo" has removed "ann" and the rows between "bob" and the two of
\* them, of every status, are still there
C11_PairRemovedOthersKept ==
  /\ req.op = "remove_friend" /\ resp.status = 200
  /\ req.user_id = "demo" /\ req.friend_id = 2
  /\ \A r \in friendships : ~OfPair(r, 1, 2)
  /\ \E r \in friendships : OfPair(r, 1, 3) /\ r.status = "accepted"
  /\ \E r \in friendships : OfPair(r, 2, 3) /\ r.status = "blocked"
  /\ \E r \in friendships : r.status = "pending"

\* ------------------------------------------- genre sync of a deck ------
\* the genres table after POST /sync/genres: empty before the first sync
GenreTables == {{}, {[id |-> 1, name |-> "Drama"]},
                {[id |-> 1, name |-> "Drama"], [id |-> 2, name |-> "Comedy"]}}

\* A deck request on any feed, seen set and genres table.  A movie
\* association whose genre has no Genre row violates the foreign key when
\* it is committed.
InitGenres ==
  /\ feed \in Feeds
  /\ \E seen \in SUBSET MovieIds :
       /\ swipes = {[user_id |-> 1, movie_id |-> m, decision |-> 1,
                     swiped_at |-> 0] : m \in seen}
       /\ movies = {Placeholder(m) : m \in seen}
  /\ master_list = {}
  /\ watch_later_list = {}
  /\ users = {DemoUser}
  /\ genres \in GenreTables
  /\ movie_genres = {}
  /\ friendships = {}
  /\ now = 1
  /\ req = [op |-> "none"]
  /\ resp = [op |-> "none"]
  /\ hist = NoHist

\* failing: the movies whose get_movie_details call fails
NextGenres ==
  \E limit \in 1..MaxLimit, failing \in SUBSET MovieIds :
    DeckStart("demo", limit, NoCursor, "empty", failing)

SpecGenres == InitGenres /\ [][NextGenres]_vars

\* the genre associations of movie m in a movie_genres table
GenresOf(t, m) == {r \in t : r.movie_id = m}

\* a deck was returned while the details calls of failing failed: response
\* and Movie rows are those of a call in which none fails, each returned
\* movie whose details were fetched and whose genres have a Genre row has
\* its associations, and the associations of every other movie are as before
GenreFailureIsLocal(failing) ==
  LET clean == deck_call(req'.user_id, req'.limit, req'.cursor, "empty", {})
      returned == {resp'.results[k].id : k \in 1..Len(resp'.results)}
  IN resp'.status = "ok" =>
       /\ resp' = clean.resp
       /\ movies' = clean.movies
       /\ \A m \in MovieIds :
            GenresOf(movie_genres', m) =
              IF /\ m \in returned
                 /\ m \notin failing
                 /\ \A g \in TmdbGenreIds(m) : \E row \in genres : row.id = g
              THEN GenresOf(movie_genres, m)
                     \cup {[movie_id |-> m, genre_id |-> g] : g \in TmdbGenreIds(m)}
              ELSE GenresOf(movie_genres, m)

GenreSyncStep ==
  req'.op = "get_deck" =>
    \A failing \in SUBSET MovieIds :
      DeckStart("demo", req'.limit, NoCursor, "empty", failing)
        => GenreFailureIsLocal(failing)

\* C12: a failure while fetching the details or persisting the genre
\* associations of one returned movie changes that movie's associations
\* only: the response and the committed Movie rows are the same, and the
\* movies after it in the deck are still synced
C12_GenreFailureIsLocal == [][GenreSyncStep]_vars

\* the deck is movie 2, then movie 1; the sync of movie 2 failed, movie 1
\* after it has its association, and both Movie rows are committed
C12_LaterMovieSynced ==
  /\ req.op = "get_deck" /\ resp.status = "ok"
  /\ Len(resp.results) = 2
  /\ resp.results[1].id = 2 /\ resp.results[2].id = 1
  /\ movie_genres = {[movie_id |-> 1, genre_id |-> 1]}
  /\ {r.id : r \in movies} = {1, 2}

\* ------------------------------------------------- the whole service ----
\* The Store as the migrations leave it, and a Catalog Source whose feed
\* is one page of two movies.
Init ==
  /\ EmptyStore
  /\ feed = [pages |-> <<<<1, 2>>>>, tail |-> <<>>, down |-> {}]
  /\ req = [op |-> "none"]
  /\ resp = [op |-> "none"]
  /\ hist = NoHist

\* GET /deck without a cursor
deck(user_id, limit) ==
  /\ get_deck(user_id, limit, NoCursor, "empty", {})
  /\ UNCHANGED hist

\* the endpoints that write swipes, lists, movies, users and friendships,
\* called by either user in any order
Next ==
  \/ \E user_id \in Emails, movie_id \in MovieIds :
       swipe(user_id, movie_id, "like")
  \/ \E user_id \in Emails, movie_id \in MovieIds :
       movie_interaction(user_id, movie_id, TRUE, Some(TRUE), None, Some(45),
                         None, None)
  \/ \E user_id \in Emails, movie_id \in MovieIds :
       movie_interaction(user_id, movie_id, FALSE, None, Some(TRUE), None,
                         None, None)
  \/ \E user_id \in Emails, movie_id \in MovieIds :
       update_master_list_item(user_id, movie_id, Some(0), None)
  \/ \E user_id \in Emails, movie_id \in MovieIds :
       delete_from_master_list(user_id, movie_id)
  \/ \E user_id \in Emails, movie_id \in MovieIds :
       update_watch_later_item(user_id, movie_id, 3)
  \/ \E user_id \in Emails, movie_id \in MovieIds :
       delete_from_watch_later(user_id, movie_id)
  \/ \E user_id \in Emails : deck(user_id, 1)
  \/ \E user_id \in Emails, friend_email \in Emails :
       send_friend_request(user_id, friend_email)
  \/ \E user_id \in Emails, friend_id \in {1, 2} :
       remove_friend(user_id, friend_id)

Spec == Init /\ [][Next]_vars

\* C13: every Swipe, MasterListItem and WatchLaterItem row refers to a
\* movie that has a Movie row and to a user that has a User row, in every
\* state the endpoints can reach, calls that end in an error included
C13_RowsHaveMovieAndUser ==
  \A r \in swipes \cup master_list \cup watch_later_list :
    /\ \E m \in movies : m.id = r.movie_id
    /\ \E u \in users : u.id = r.user_id

\* a second swipe was just refused; the Store holds the first swipe and a
\* list item, on movies that no deck has returned (placeholder rows)
C13_RowsOnPlaceholders ==
  /\ req.op = "swipe" /\ resp.status = 409
  /\ swipes # {}
  /\ master_list \cup watch_later_list # {}
  /\ \A m \in movies : m = Placeholder(m.id)
  /\ Cardinality(movies) = 2

\* ----------------------------------------- a friend's master list ------
get_friendship_any_status(user_id, friend_id) ==
  {r \in friendships :
     \/ r.user_id = user_id /\ r.friend_id = friend_id
     \/ r.user_id = friend_id /\ r.friend_id = user_id}

\* read.get_friendship: the accepted rows of the pair, in either
\* direction (the query takes the first; the caller tests for none)
get_friendship(user_id, friend_id) ==
  {r \in friendships :
     /\ \/ r.user_id = user_id /\ r.friend_id = friend_id
        \/ r.user_id = friend_id /\ r.friend_id = user_id
     /\ r.status = "accepted"}

RECURSIVE order_by_added_at_desc(_)
\* ORDER BY added_at DESC of a set of rows
order_by_added_at_desc(rows) ==
  IF rows = {} THEN <<>>
  ELSE LET first == CHOOSE r \in rows : \A x \in rows : x.added_at <= r.added_at
       IN <<first>> \o order_by_added_at_desc(rows \ {first})

\* read.get_friend_master_list_items: the items of friend_id joined with
\* their Movie rows, of the genre when a genre id is given (0 is no filter)
get_friend_master_list_items(friend_id, genre_id) ==
  order_by_added_at_desc(
    {r \in master_list :
       /\ r.user_id = friend_id
       /\ \E m \in movies : m.id = r.movie_id
       /\ (genre_id # None /\ The(genre_id) # 0) =>
            \E g \in movie_genres :
              g.movie_id = r.movie_id /\ g.genre_id = The(genre_id)})

\* read.get_genres_for_movie
get_genres_for_movie(movie_id) ==
  {g \in genres : \E r \in movie_genres :
                    r.movie_id = movie_id /\ r.genre_id = g.id}

\* the result list get_friend_master_list builds of the items
friend_items(items) ==
  [k \in 1..Len(items) |->
     LET movie == The(RowOf(movies, items[k].movie_id)) IN
     [movie_id |-> items[k].movie_id, title |-> movie.title,
      poster_path |-> movie.poster_path,
      genres |-> get_genres_for_movie(items[k].movie_id),
      rating |-> items[k].rating, notes |-> items[k].notes,
      added_at |-> items[k].added_at]]

\* GET /friends/{friend_id}/master-list: "not found" in the message of
\* the ValueError makes it a 404, any other ValueError is a 403
get_friend_master_list(user_id, friend_id, genre_id) ==
  LET user == get_user_by_email(user_id) IN
  /\ req' = [op |-> "get_friend_master_list", user_id |-> user_id,
             friend_id |-> friend_id, genre_id |-> genre_id]
  /\ resp' = IF user = {}
             THEN [op |-> "get_friend_master_list", status |-> 404,
                   detail |-> "User not found", results |-> <<>>]
             ELSE IF get_friendship(The(user).id, friend_id) = {}
             THEN [op |-> "get_friend_master_list", status |-> 403,
                   detail |-> "Not friends or friendship not accepted",
                   results |-> <<>>]
             ELSE [op |-> "get_friend_master_list", status |-> 200,
                   detail |-> "",
                   results |-> friend_items(
                     get_friend_master_list_items(friend_id, genre_id))]
  /\ UNCHANGED <<store, feed, hist>>

\* the master lists two users can hold of the movies: an item of movie m
\* was added at time m
MasterLists ==
  {{[user_id |-> p[1], movie_id |-> p[2], rating |-> Some(45),
     notes |-> None, added_at |-> p[2]] : p \in ps} :
     ps \in SUBSET ({1, 2} \X MovieIds)}

\* two users, any friendship rows between them, any master lists
InitShare ==
  /\ users = BothUsers
  /\ friendships \in FriendshipTables
  /\ master_list \in MasterLists
  /\ movies = {Placeholder(m) : m \in MovieIds}
  /\ genres = {[id |-> 1, name |-> "Drama"]}
  /\ movie_genres = {[movie_id |-> 1, genre_id |-> 1]}
  /\ swipes = {} /\ watch_later_list = {}
  /\ now = MaxMovieId + 1
  /\ feed = NoFeed
  /\ req = [op |-> "none"]
  /\ resp = [op |-> "none"]
  /\ hist = NoHist

NextShare ==
  \E user_id \in Emails \cup {"bob"}, friend_id \in Uuids,
     genre_id \in {None, Some(0), Some(1)} :
    get_friend_master_list(user_id, friend_id, genre_id)

SpecShare == InitShare /\ [][NextShare]_vars

\* the master-list movie ids of user f, of the genre when one is asked for
SharedIds(f, genre_id) ==
  {r.movie_id : r \in {x \in master_list :
     /\ x.user_id = f
     /\ (genre_id # None /\ genre_id # Some(0)) =>
          [movie_id |-> x.movie_id, genre_id |-> The(genre_id)] \in movie_genres}}

\* C14: a friend's master list is returned only when the Store holds an
\* accepted friendship row between the two users, in either direction;
\* otherwise the call fails and returns no item
C14_ListOnlyForAcceptedFriend ==
  req.op = "get_friend_master_list" =>
    IF \E u \in users, r \in friendships :
         /\ u.email = req.user_id
         /\ r.status = "accepted"
         /\ OfPair(r, u.id, req.friend_id)
    THEN /\ resp.status = 200
         /\ {resp.results[k].movie_id : k \in 1..Len(resp.results)}
              = SharedIds(req.friend_id, req.genre_id)
    ELSE /\ resp.status \in {403, 404}
         /\ resp.results = <<>>

\* "demo" asked for the list of "ann", who has items; the only row between
\* them is pending, and the call was refused
C14_PendingRefused ==
  /\ req.op = "get_friend_master_list"
  /\ req.user_id = "demo" /\ req.friend_id = 2
  /\ resp.status = 403
  /\ \E r \in master_list : r.user_id = 2
  /\ friendships # {}
  /\ \A r \in friendships : r.status = "pending"

\* ------------------------------------- the Catalog Source is down ------
\* the start of a deck request: none, or a position one page below the
\* page ceiling
OutageCursors == {NoCursor, SomeCursor(encode_cursor(PageCeiling - 1, 0))}

\* A deck request on any feed one page of which the source fails to
\* deliver: the first page, the second, or the last one below the ceiling
InitOutage ==
  /\ feed \in {[f EXCEPT !.down = {p}] : f \in Feeds, p \in {1, 2, PageCeiling}}
  /\ \E seen \in SUBSET MovieIds :
       /\ swipes = {[user_id |-> 1, movie_id |-> m, decision |-> 1,
                     swiped_at |-> 0] : m \in seen}
       /\ movies = {Placeholder(m) : m \in seen}
  /\ master_list = {}
  /\ watch_later_list = {}
  /\ users = {DemoUser}
  /\ genres = {[id |-> 1, name |-> "Drama"], [id |-> 2, name |-> "Comedy"]}
  /\ movie_genres = {}
  /\ friendships = {}
  /\ now = 1
  /\ req = [op |-> "none"]
  /\ resp = [op |-> "none"]
  /\ hist = NoHist

NextOutage ==
  \E limit \in 1..MaxLimit, cursor \in OutageCursors :
    DeckStart("demo", limit, cursor, "empty", {})

SpecOutage == InitOutage /\ [][NextOutage]_vars

\* C15: when the Catalog Source fails on a discover page during get_deck,
\* the call fails as a whole: no card is returned, the failed page is the
\* last page requested and was requested once, and the Store is as it was
\* before the call
C15_OutageFailsTheCall ==
  (/\ req.op = "get_deck"
   /\ \E k \in 1..Len(resp.pages) : resp.pages[k] \in feed.down) =>
    /\ resp.status = "error"
    /\ resp.results = <<>>
    /\ ~resp.cursor.some
    /\ resp.pages[Len(resp.pages)] \in feed.down
    /\ \A k \in 1..(Len(resp.pages) - 1) : resp.pages[k] \notin feed.down
    /\ movies = hist.movies
    /\ movie_genres = {}

\* page 1 gave an unseen card, then the source failed on page 2: the call
\* failed and the card's Movie row was not written
C15_FailedAfterFirstPage ==
  /\ req.op = "get_deck" /\ ~req.cursor.some /\ req.limit = 2
  /\ resp.status = "error" /\ resp.error = "HTTPStatusError"
  /\ resp.pages = <<1, 2>>
  /\ feed.down = {2}
  /\ feed.pages[1] = <<1>>
  /\ swipes = {} /\ movies = {}

\* ------------------------------------------- two requests at once ------
\* Two requests by different users run at once, each in its own session
\* and transaction, interleaved at single Store reads, flushes and
\* commits.  Here req and resp hold, for each session, the request it
\* serves and the response it gave.  The Store is read committed: a query
\* sees the committed rows and the rows its own transaction flushed; an
\* INSERT of a key that another open transaction has inserted waits for
\* that transaction to end; an INSERT of a committed key fails with a
\* duplicate-key IntegrityError.
Sessions == {"s1", "s2"}

SessionUser(s) == IF s = "s1" THEN "demo" ELSE "ann"

\* the INSERT of Movie movie_id by session s has to wait: another session
\* whose transaction has not ended has flushed a row of that id
Blocked(s, movie_id) ==
  \E t \in Sessions \ {s} :
    req[t].pc # "done" /\ \E r \in req[t].flushed : r.id = movie_id

\* Both users have a row, neither has swiped, and any of the movies may
\* have a Movie row; each session serves a swipe on, or a deck that
\* returns, one movie
InitRace ==
  /\ users = BothUsers
  /\ movies \in SUBSET {Placeholder(m) : m \in MovieIds}
  /\ genres = {} /\ movie_genres = {} /\ swipes = {}
  /\ master_list = {} /\ watch_later_list = {} /\ friendships = {}
  /\ now = 1
  /\ feed = NoFeed
  /\ req \in [Sessions -> [op : {"swipe", "get_deck"}, movie_id : MovieIds,
                           pc : {"start"}, sess : {[db |-> {}, pending |-> <<>>]},
                           flushed : {{}}]]
  /\ resp = [s \in Sessions |-> [status |-> 0]]
  /\ hist = NoHist

\* the first query of the request for its movie: ensure_movie_exists
\* (swipe) or create_or_update_movie (deck), up to the db.add
read_movie(s) ==
  /\ req[s].pc = "start"
  /\ req' = [req EXCEPT
       ![s].pc = "read",
       ![s].sess =
         IF req[s].op = "swipe"
         THEN [db |-> movies,
               pending |-> IF RowOf(movies, req[s].movie_id) # {} THEN <<>>
                           ELSE <<Placeholder(req[s].movie_id)>>]
         ELSE create_or_update_movie([db |-> movies, pending |-> <<>>],
                                     Card(TmdbEntry(req[s].movie_id)))]
  /\ UNCHANGED <<store, feed, resp, hist>>

\* db.flush() in ensure_movie_exists: the INSERT of the placeholder
flush_movie(s) ==
  /\ req[s].pc = "read"
  /\ req[s].op = "swipe"
  /\ IF req[s].sess.pending = <<>>
     THEN /\ req' = [req EXCEPT ![s].pc = "flushed"]
          /\ UNCHANGED resp
     ELSE /\ ~Blocked(s, req[s].movie_id)
          /\ IF RowOf(movies, req[s].movie_id) # {}
             THEN \* IntegrityError "duplicate key ...": rollback, 409
                  /\ req' = [req EXCEPT ![s].pc = "done"]
                  /\ resp' = [resp EXCEPT ![s] = [status |-> 409]]
             ELSE /\ req' = [req EXCEPT ![s].pc = "flushed",
                                        ![s].flushed = {req[s].sess.pending[1]}]
                  /\ UNCHANGED resp
  /\ UNCHANGED <<store, feed, hist>>

\* create_swipe and db.commit() of process_swipe
commit_swipe(s) ==
  LET user == The(get_user_by_email(SessionUser(s)))
      done == flush_swipe(swipes, create_swipe(user.id, req[s].movie_id,
                                               decision_to_int("like")))
  IN /\ req[s].pc = "flushed"
     /\ req' = [req EXCEPT ![s].pc = "done"]
     /\ IF done.ok
        THEN /\ movies' = movies \cup req[s].flushed
             /\ swipes' = done.rows
             /\ now' = now + 1
             /\ resp' = [resp EXCEPT ![s] = [status |-> 200]]
        ELSE /\ UNCHANGED <<movies, swipes, now>>
             /\ resp' = [resp EXCEPT ![s] = [status |-> 409]]
     /\ UNCHANGED <<users, genres, movie_genres, master_list, watch_later_list,
                    friendships, feed, hist>>

\* db.commit() of get_deck, line 137: the flush writes the update of the
\* row the query found, or inserts the pending row
commit_deck(s) ==
  LET found == RowOf(req[s].sess.db, req[s].movie_id)
      saved == commit_movies([db |-> (movies \ RowOf(movies, req[s].movie_id))
                                       \cup found,
                              pending |-> req[s].sess.pending])
      clash == req[s].sess.pending # <<>> /\ RowOf(movies, req[s].movie_id) # {}
  IN /\ req[s].pc = "read"
     /\ req[s].op = "get_deck"
     /\ req[s].sess.pending # <<>> => ~Blocked(s, req[s].movie_id)
     /\ req' = [req EXCEPT ![s].pc = "done"]
     /\ IF clash \/ ~saved.ok
        THEN \* IntegrityError leaves get_deck: HTTP 500
             /\ UNCHANGED movies
             /\ resp' = [resp EXCEPT ![s] = [status |-> 500]]
        ELSE /\ movies' = saved.rows
             /\ resp' = [resp EXCEPT ![s] = [status |-> 200]]
     /\ UNCHANGED <<users, genres, movie_genres, swipes, master_list,
                    watch_later_list, friendships, now, feed, hist>>

NextRace ==
  \E s \in Sessions :
    \/ read_movie(s)
    \/ flush_movie(s)
    \/ commit_swipe(s)
    \/ commit_deck(s)

SpecRace == InitRace /\ [][NextRace]_vars

\* C16: requests of different users do not interact: each of the two
\* calls ends as it does alone, which is with success (neither user has
\* swiped, and a deck call alone upserts its card)
C16_DifferentUsersDoNotInteract ==
  \A s \in Sessions : req[s].pc = "done" => resp[s].status = 200

\* ------------------------------------- watch later: create or update ---
\* the step is an interaction that wants to see a movie the user already
\* has in the watch-later list
RepeatsWatchLater ==
  /\ req'.op = "movie_interaction"
  /\ ~req'.have_you_seen
  /\ req'.want_to_see = Some(TRUE)
  /\ ItemOf(watch_later_list, users, req'.user_id, req'.movie_id) # {}

WatchLaterMerges ==
  RepeatsWatchLater =>
    LET old == ItemOf(watch_later_list, users, req'.user_id, req'.movie_id)
        new == ItemOf(watch_later_list', users', req'.user_id, req'.movie_id)
    IN /\ Cardinality(new) = 1
       /\ \A o \in old, n \in new :
            /\ n.added_at = o.added_at
            /\ n.priority = IF req'.priority = None THEN o.priority
                            ELSE The(req'.priority)

\* C17: an interaction that wants to see a movie already in the user's
\* watch-later list keeps the stored priority when it supplies none and
\* sets the supplied one otherwise; added_at stays and no second row
\* appears
C17_WatchLaterMerges == [][WatchLaterMerges]_vars

\* ------------------------------------------- upsert of the deck --------
\* the Movie row the upsert of card makes of the row old
Upserted(old, card) ==
  [id |-> old.id,
   title |-> card.title,
   release_date |-> IF card.release_date = None THEN old.release_date
                    ELSE card.release_date,
   poster_path |-> IF card.poster_path = None THEN old.poster_path
                   ELSE card.poster_path,
   backdrop_path |-> IF card.backdrop_path = None THEN old.backdrop_path
                     ELSE card.backdrop_path,
   overview |-> IF card.overview = None THEN old.overview ELSE card.overview]

\* every card of the response has one Movie row, and the row of a card
\* that had one before the call (hist.movies) is the upsert of that row
CardsStoredOnce ==
  \A k \in 1..Len(resp.results) :
    /\ Cardinality(RowOf(movies, resp.results[k].id)) = 1
    /\ \A old \in RowOf(hist.movies, resp.results[k].id) :
         RowOf(movies, old.id) = {Upserted(old, resp.results[k])}

\* C18: a deck call whose scan ended without an error returns its deck, and
\* then the Store holds one Movie row for every card, whatever the feed
\* and the rows before; a row that was there before keeps the attributes
\* the card lacks and takes the others from the card
C18_CardsUpsertedOnce ==
  (req.op = "get_deck" /\ resp.error \in {"", "IntegrityError"}) =>
    /\ resp.status = "ok"
    /\ CardsStoredOnce

\* ------------------------------------------- the pages of one call -----
\* the unseen entries of pages first..last, past the first index entries
\* of page first
UnseenOnPages(first, index, last, seen) ==
  Cardinality({x \in (first..last) \X (1..MaxPageLen) :
                 /\ x[2] <= Len(PageAt(x[1]))
                 /\ x[1] > first \/ x[2] > index
                 /\ PageAt(x[1])[x[2]] \notin seen})

\* pages, the page numbers requested in order, are a run from the start
\* page that stays at or below the ceiling, and every page but the last
\* was not empty and left the deck short of limit
PagesInOrder(pages, start, limit, seen) ==
  LET n == Len(pages) IN
  /\ n <= PageCeiling
  /\ \A k \in 1..n : pages[k] = start[1][2] + k - 1 /\ pages[k] <= PageCeiling
  /\ \A k \in 1..(n - 1) : pages[k] >= 1 /\ PageAt(pages[k]) # <<>>
  /\ (n >= 2 /\ start[2][1] = "int" /\ start[2][2] >= 0) =>
       UnseenOnPages(pages[1], start[2][2], pages[n - 1], seen) < limit

\* C19: the pages one deck call requests from an integer start_page are
\* start_page, start_page + 1, ... in that order, none above 500, none
\* after the deck reached limit and none after an empty page, so that a
\* call makes at most 500 requests
C19_PagesInOrder ==
  req.op = "get_deck" =>
    LET start == IF req.cursor.some /\ req.cursor.s # <<>>
                 THEN decode_cursor(req.cursor.s) ELSE StartPosition
    IN start[1][1] = "int" =>
         PagesInOrder(resp.pages, start, req.limit, SeenBy(req.user_id))

\* a call without cursor whose feed has only seen entries requested all
\* 500 pages and returned an empty deck
C19_ScannedToTheCeiling ==
  /\ req.op = "get_deck"
  /\ ~req.cursor.some
  /\ resp.status = "ok"
  /\ resp.results = <<>>
  /\ Len(resp.pages) = PageCeiling

\* ------------------------------------------- requests and removals -----
\* Three users and no friendship: every row of the table is written by
\* the calls of the run
InitRequests ==
  /\ users = ThreeUsers
  /\ friendships = {}
  /\ movies = {} /\ genres = {} /\ movie_genres = {} /\ swipes = {}
  /\ master_list = {} /\ watch_later_list = {}
  /\ now = 1
  /\ feed = NoFeed
  /\ req = [op |-> "none"]
  /\ resp = [op |-> "none"]
  /\ hist = NoHist

NextRequests ==
  \/ \E user_id \in {"demo", "ann", "bob", "eve"},
        friend_email \in {"demo", "ann", "bob", "eve"} :
       send_friend_request(user_id, friend_email)
  \/ \E user_id \in {"demo", "ann", "bob", "eve"}, friend_id \in 1..4 :
       remove_friend(user_id, friend_id)

SpecRequests == InitRequests /\ [][NextRequests]_vars

\* C20: whatever requests and removals were made, by either side and in
\* any order, the table holds at most one friendship row for each
\* unordered pair of users
C20_OneRowPerPair ==
  \A a, b \in {u.id : u \in users} :
    Cardinality({r \in friendships : OfPair(r, a, b)}) <= 1

\* ------------------------------------------- seen movies stay out ------
\* no operation deletes a swipe
SwipesKept == \A r \in swipes : r \in swipes'

\* the cards of a deck response are not in the seen set of its user:
\* the movies the user swiped and those now in the user's lists
DeckAvoidsSeen ==
  (req.op = "get_deck" /\ resp.status = "ok") =>
    \A k \in 1..Len(resp.results) :
      resp.results[k].id \notin SeenBy(req.user_id)

\* C21: across the operations of the service a swipe is never deleted and
\* no deck of a user holds a movie the user swiped or has in the master
\* list or the watch-later list at the time of the call
C21_SeenStaysOut == [][SwipesKept]_vars /\ []DeckAvoidsSeen

\* a deck call of a user who swiped movie 1, the first entry of the feed:
\* the deck skips it and returns movie 2
C21_SwipedCardSkipped ==
  /\ req.op = "get_deck" /\ resp.status = "ok"
  /\ SwipesOf(req.user_id, 1) # {}
  /\ Len(resp.results) = 1 /\ resp.results[1].id = 2

\* ------------------------------------------- the shape of a deck -------
\* C22: a deck response has at most limit results, and it has a cursor
\* exactly when has_more is true, which is exactly when the results are
\* limit many
C22_CursorIffFull ==
  (req.op = "get_deck" /\ resp.status = "ok") =>
    /\ Len(resp.results) <= req.limit
    /\ resp.cursor.some <=> resp.has_more
    /\ resp.has_more <=> Len(resp.results) = req.limit

\* a full deck with a cursor, and the short deck without one that the
\* call resuming at that cursor returned
C22_FullThenShort ==
  /\ req.op = "get_deck" /\ hist.some
  /\ hist.resp.status = "ok" /\ resp.status = "ok"
  /\ Len(hist.resp.results) = hist.req.limit
  /\ hist.resp.cursor.some /\ hist.resp.has_more
  /\ Len(resp.results) >= 1 /\ Len(resp.results) < req.limit
  /\ ~resp.cursor.some /\ ~resp.has_more

\* ------------------------------------------- friendship statuses -------
\* Three users, no friendship row; user 2 may hold a master-list item
InitPublic ==
  /\ users = ThreeUsers
  /\ friendships = {}
  /\ \E m \in {0} \cup MovieIds :
       /\ master_list = {[user_id |-> 2, movie_id |-> x, rating |-> Some(45),
                          notes |-> None, added_at |-> 0] : x \in {m} \ {0}}
       /\ movies = {Placeholder(x) : x \in {m} \ {0}}
  /\ genres = {} /\ movie_genres = {} /\ swipes = {} /\ watch_later_list = {}
  /\ now = 1
  /\ feed = NoFeed
  /\ req = [op |-> "none"]
  /\ resp = [op |-> "none"]
  /\ hist = NoHist

\* the friend endpoints, called by anyone for anyone, among swipes,
\* interactions and deck calls
NextPublic ==
  \/ \E user_id \in {"demo", "ann", "bob", "eve"},
        friend_email \in {"demo", "ann", "bob", "eve"} :
       send_friend_request(user_id, friend_email)
  \/ \E user_id \in {"demo", "ann", "bob", "eve"}, friend_id \in 1..4 :
       remove_friend(user_id, friend_id)
  \/ \E user_id \in {"demo", "ann", "bob", "eve"} :
       get_user_friends_list(user_id)
  \/ \E user_id \in {"demo", "ann", "bob", "eve"}, friend_id \in 1..4 :
       get_friend_master_list(user_id, friend_id, None)
  \/ \E user_id \in {"demo", "ann"} : swipe(user_id, 1, "like")
  \/ \E user_id \in {"demo", "ann"} :
       movie_interaction(user_id, 1, TRUE, Some(TRUE), None, Some(45), None,
                         None)
  \/ \E user_id \in {"demo", "ann"} : deck(user_id, 1)

SpecPublic == InitPublic /\ [][NextPublic]_vars

\* every friendship row is pending, a friends list is empty and a request
\* for a friend's master list is refused
OnlyPending ==
  /\ \A r \in friendships : r.status = "pending"
  /\ req.op = "get_user_friends_list" => resp.results = <<>>
  /\ req.op = "get_friend_master_list" => resp.status \in {403, 404}

\* a friend request that succeeds leaves a pending row from its user to
\* the friend
SendWritesPending ==
  (req'.op = "send_friend_request" /\ resp'.status = 200) =>
    \E r \in friendships' :
      /\ r.status = "pending"
      /\ \E u, f \in users : /\ u.email = req'.user_id /\ u.id = r.user_id
                             /\ f.email = req'.friend_email /\ f.id = r.friend_id

\* C23: in the states the public operations reach from an empty
\* friendship table every friendship row is pending, a friend request
\* writes pending, every friends list is empty and every request for a
\* friend's master list is refused
C23_OnlyPendingRows == []OnlyPending /\ [][SendWritesPending]_vars

\* both users requested each other, and the request for the friend's
\* master list, which holds an item, was refused with 403
C23_MutualRequestRefused ==
  /\ req.op = "get_friend_master_list" /\ resp.status = 403
  /\ \E u \in users :
       /\ u.email = req.user_id
       /\ \E r1, r2 \in friendships :
            /\ r1.user_id = u.id /\ r1.friend_id = req.friend_id
            /\ r2.user_id = req.friend_id /\ r2.friend_id = u.id
  /\ \E i \in master_list : i.user_id = req.friend_id

\* ------------------------------------------- what a deck call writes ---
\* a deck call leaves users, swipes, lists, friendships and genres as they
\* were, and for an identity without a User row it answers as for a user
\* who has seen nothing
DeckWritesMoviesOnly ==
  req'.op = "get_deck" =>
    /\ UNCHANGED <<users, swipes, master_list, watch_later_list,
                   friendships, genres>>
    /\ \A m \in movies : \E n \in movies' : n.id = m.id
    /\ movie_genres \subseteq movie_genres'
    /\ get_user_by_email(req'.user_id) = {} =>
         resp' = deck_outcome(movies, movie_genres, {}, req'.limit,
                              req'.cursor, "empty", {}).resp

\* C24: get_deck writes only Movie rows and movie-genre associations; it
\* creates no User row, for a known or an unknown identity, leaves swipes,
\* lists, friendships and genres unchanged, and treats an identity without
\* a User row as one that has seen nothing
C24_DeckWritesMoviesOnly == [][DeckWritesMoviesOnly]_vars

\* a deck call by an identity without a User row, after another user
\* swiped movie 1: the deck holds movie 1 and there is still no such row
C24_UnknownIdentityServed ==
  /\ req.op = "get_deck" /\ resp.status = "ok"
  /\ get_user_by_email(req.user_id) = {}
  /\ \E r \in swipes : r.movie_id = 1
  /\ Len(resp.results) = 1 /\ resp.results[1].id = 1
  /\ \E m \in movies : m.id = 1 /\ m.title = "title"

\* ------------------------------------------- one list per interaction --
\* the rows of table t that are not the item of user email for movie_id,
\* with the users of userRows
RowsBeside(t, userRows, email, movie_id) == t \ ItemOf(t, userRows, email, movie_id)

\* an interaction saves to the list its answers name, to that list only
\* and to the item of its user and movie only, or skips; it adds at most
\* the User row of its user and the placeholder of its movie
InteractionTouchesOneList ==
  req'.op = "movie_interaction" =>
    LET like == req'.have_you_seen /\ req'.did_you_like = Some(TRUE)
        want == ~req'.have_you_seen /\ req'.want_to_see = Some(TRUE)
        kept(t, u) ==
          RowsBeside(u, users', req'.user_id, req'.movie_id)
            = RowsBeside(t, users', req'.user_id, req'.movie_id)
        one(u) ==
          Cardinality(ItemOf(u, users', req'.user_id, req'.movie_id)) = 1
    IN /\ users \subseteq users'
       /\ \A u \in users' \ users : u.email = req'.user_id
       /\ movies \subseteq movies'
       /\ movies' \ movies \subseteq {Placeholder(req'.movie_id)}
       /\ IF like
          THEN /\ resp'.action = "saved_to_master_list"
               /\ kept(master_list, master_list') /\ one(master_list')
               /\ watch_later_list' = watch_later_list
          ELSE IF want
          THEN /\ resp'.action = "saved_to_watch_later"
               /\ kept(watch_later_list, watch_later_list')
               /\ one(watch_later_list')
               /\ master_list' = master_list
          ELSE /\ resp'.action = "skipped" /\ resp'.details = None
               /\ master_list' = master_list
               /\ watch_later_list' = watch_later_list

\* C25: an interaction with have_you_seen and did_you_like true upserts
\* only the master-list item of its user and movie, one with have_you_seen
\* false and want_to_see true only the watch-later item, and every other
\* one is skipped with no details and leaves both lists as they were; none
\* deletes a row, and the only other rows written are the User row and the
\* placeholder Movie row
C25_InteractionTouchesOneList == [][InteractionTouchesOneList]_vars

\* a skipped interaction on a movie that is in neither list, by a user
\* who holds an item of the other movie: the movie has its placeholder
\* row and the other item is still there
C25_SkippedWithListsKept ==
  /\ req.op = "movie_interaction" /\ resp.action = "skipped"
  /\ resp.details = None
  /\ ItemOf(master_list, users, req.user_id, req.movie_id) = {}
  /\ ItemOf(watch_later_list, users, req.user_id, req.movie_id) = {}
  /\ master_list \cup watch_later_list # {}
  /\ Placeholder(req.movie_id) \in movies

=============================================================================
